---- MODULE Spec2Model ----
(***************************************************************************)
(* A model of the CoCoChain application node (src/unnamed/part_003,        *)
(* src/src/CoCoChainApp.h): the per-node consensus bookkeeping             *)
(* (pendingTransactions, consensusVotes, confirmedTransactions,            *)
(* transactionStartTimes, the verification counters) driven by the timer   *)
(* and by the packets the UDP socket delivers, and the semantic            *)
(* verification of a concept vector as a function of its inputs; of the    *)
(* allocation of transaction ids over the nodes; of the transaction a      *)
(* node builds, honest or adversarial; of the end of the simulation and    *)
(* of malformed consensus packets; of several nodes that receive the same  *)
(* votes in different orders; and of the handover and the transactions of  *)
(* the highway scenario between a vehicle (src/unnamed/part_002), with its *)
(* search for the nearest RSU, and the RSUs (src/src/RSUApp.cc).           *)
(*                                                                         *)
(* Numbers.  A coordinate of a concept vector is held as an integer       *)
(* number of tenths (8 stands for 0.8), so every vector of the model is    *)
(* a vector of multiples of 0.1; comparisons of the reals the code         *)
(* computes from them (variance, cosine similarity) are decided exactly    *)
(* in integer arithmetic.  The rounding of IEEE doubles is not modelled.   *)
(* Simulation time is counted in ticks, TicksPerUs of them to the          *)
(* microsecond of a wire timestamp.                                        *)
(***************************************************************************)
EXTENDS Integers, Sequences, FiniteSets, TLC

(***************************************************************************)
(* Bounds of the model.                                                    *)
(***************************************************************************)
\* packets delivered to the node (caps totalMessagesReceived)
MaxMessages == 2
\* last tick of simulated time
MaxTime == 2
\* transactions the node itself creates (caps transactionCounter)
MaxSends == 1
\* module ids of the nodes on the network: 1..MaxNode
MaxNode == 2
\* transactions each node creates in the id allocation
MaxCreates == 3
\* transactions the vehicle creates (caps VehicleApp::transactionCounter)
MaxVehicleSends == 2
\* nodes that vote on the transaction of the network scenario
MaxVoters == 3

(***************************************************************************)
(* Constants of the program.                                               *)
(***************************************************************************)
\* int estimatedNetworkSize = 100
EstimatedNetworkSize == 100
\* cv.data.resize(10)
ConceptDim == 10
\* tx.id = ++transactionCounter + (getId() * 1000000ULL)
IdStride == 1000000
\* if (variance > 2.0), in squared tenths
VarianceLimit == 200
\* if (abs(val) > 0.8), in tenths
TopKLimitTenths == 8
\* std::setprecision(6): rendered units per tenth
MicroPerTenth == 100000

\* ticks of simulation time per microsecond of SIMTIME_US
TicksPerUs == 2
\* getId() of the modelled node
SelfId == 1
NodeIds == 1..MaxNode

\* par("maxTransactionAge"), in ticks
maxTransactionAge == 1
\* tenths in 1.0
TenthsPerUnit == 10
\* denominators of the configured fractions: bftThreshold is held in
\* thousandths, cosineSimilarityThreshold in tenths
BftScale == 1000
CosScale == 10
\* the values of par("bftThreshold") the model is run with: 0.005, 0.010 and
\* 0.025, for which requiredVotes is 0, 1 and 2
BftThresholds == {5, 10, 25}
\* the values of par("cosineSimilarityThreshold") the model is run with: 0.2
\* (the default), 0 and 1
CosThresholds == {0, 2, 10}

VARIABLES
    \* configuration, read once in initialize()
    bftThreshold, semanticVerification, cosineSimilarityThreshold,
    \* the build: isTopKConcept calls abs unqualified on a double, with no
    \* using-directive for std.  Where only <cmath> and <cstdlib> declare abs,
    \* the call resolves to ::abs(int) and the argument is truncated to an int
    \* (TRUE); where a header brings std::abs into the global namespace it is
    \* the floating-point absolute value (FALSE).
    absTruncates,
    \* CoCoChainApp fields
    pendingTransactions, consensusVotes, confirmedTransactions,
    transactionStartTimes, transactionCounter,
    totalMessagesReceived, totalMalformedDetected, totalFalsePositives,
    totalValidTransactions, totalThroughput, lastThroughputUpdate,
    \* simTime()
    now,
    \* what the last handler handed to the outside: the packets given to
    \* socket.sendTo, the signals given to emit(), and the last EV_INFO line it
    \* wrote ("none" when it wrote nothing)
    sent, emitted, log,
    \* history: per transaction id, the senders whose accept vote has been
    \* delivered, and the number of "rejected by consensus" outcomes
    acceptSeen, rejections,
    \* harness of the verification function: its inputs and its result
    vTx, vRef, vCalled, vResult,
    \* id allocation over the nodes of the network: transactionCounter of each
    \* node, and the transactions created so far as (node, counter, id)
    idCounter, issued,
    \* VehicleApp fields: mobility stands for "the mobility pointer is not
    \* null"; vehicleCounter and vehiclePending are the vehicle's
    \* transactionCounter and pendingTransactions
    mobility, currentRSU, targetRSU, inHandover, rsuContactTimes,
    vehicleCounter, vehiclePending,
    \* RSUApp fields, per RSU: the counters and the handover_complete
    \* self-messages scheduled and not yet handled
    totalHandovers, successfulHandovers, timers,
    \* the handover requests broadcast by the vehicle and not yet delivered,
    \* per RSU, in the order sent
    handoverQueue,
    \* history: per RSU, the outcome of the last request it processed, and the
    \* kind of the last event a vehicle or RSU handler was run for
    lastOutcome, lastEvent,
    \* the transactions broadcast by the vehicle and not yet delivered, per RSU,
    \* in the order sent
    txQueue,
    \* RSUApp fields, per RSU: activeTransactions holds, per transaction id, the
    \* verified flag of the transaction and the entry of the RSU's
    \* transactionStartTimes for it
    activeTransactions, throughputCounter,
    \* par("usePBFT") of the RSUs
    usePBFT,
    \* CoCoChainApp::adversarialNodes: the node's own id when initialize() has
    \* made it adversarial, else empty
    adversarialNodes,
    \* harness of the transaction sendTransaction builds: the values the
    \* random number generators give it, and the transaction built
    rngDraws, createdTx,
    \* harness of findNearestRSU: the value its uniform(0.0, 20000.0) gives,
    \* whether it has been called, and what it returned
    probePosition, probeCalled, probeNearest,
    \* the network scenario: per receiving node, its CoCoChainApp fields
    \* (pendingTransactions, consensusVotes, confirmedTransactions, the last
    \* EV_INFO line, and as history the ids it has rejected by consensus); per
    \* receiving node and voter, the votes broadcast by the voter and not yet
    \* delivered to the node, in the order sent; the voters that have voted
    peers, channel, voted

nodeVars == <<bftThreshold, pendingTransactions, consensusVotes,
              confirmedTransactions, transactionStartTimes, transactionCounter,
              totalMessagesReceived, totalMalformedDetected, totalFalsePositives,
              totalValidTransactions, totalThroughput, lastThroughputUpdate,
              now, sent, emitted, log, acceptSeen, rejections>>
verifyVars == <<vTx, vRef, vCalled, vResult>>
idVars == <<idCounter, issued>>
vehicleVars == <<mobility, currentRSU, targetRSU, inHandover, rsuContactTimes,
                 vehicleCounter, vehiclePending>>
rsuVars == <<totalHandovers, successfulHandovers, timers>>
transactionVars == <<txQueue, activeTransactions, throughputCounter, usePBFT>>
highwayVars == <<vehicleVars, rsuVars, handoverQueue, lastOutcome, lastEvent,
                 transactionVars>>
createVars == <<adversarialNodes, rngDraws, createdTx>>
sideVars == <<probePosition, probeCalled, probeNearest, peers, channel, voted>>
vars == <<nodeVars, verifyVars, idVars, createVars, sideVars, highwayVars,
          semanticVerification, cosineSimilarityThreshold, absTruncates>>

(***************************************************************************)
(* std::map helpers.                                                       *)
(***************************************************************************)
EmptyMap == << >>
MapPut(m, k, v) == [x \in (DOMAIN m) \cup {k} |-> IF x = k THEN v ELSE m[x]]
MapErase(m, k) == [x \in (DOMAIN m) \ {k} |-> m[x]]

Abs(n) == IF n < 0 THEN -n ELSE n
RECURSIVE SumTo(_, _)
SumTo(s, k) == IF k = 0 THEN 0 ELSE s[k] + SumTo(s, k - 1)
SumSeq(s) == SumTo(s, Len(s))

(***************************************************************************)
(* Concept vectors.  A ConceptVector is [data, isCorrupted, isTopK]; its   *)
(* timestamp and nodeId fields are written by generateConceptVector and    *)
(* never read, and are left out.                                           *)
(***************************************************************************)
\* k coordinates a followed by ConceptDim - k coordinates b
Vec(a, b, k) == [i \in 1..ConceptDim |-> IF i <= k THEN a ELSE b]
\* 3.0, -3.0, 1.0, -1.0 and six zeros: population variance exactly 2.0
BoundaryData == <<30, -30, 10, -10, 0, 0, 0, 0, 0, 0>>
\* The coordinate sequences conceptDist(rng) is taken to draw: all 0.5; all
\* 0.8 (no coordinate above 0.8); one 0.9 among 0.1s; one -0.9 among 0.1s;
\* five 2.0 and five -2.0 (variance 4.0); variance exactly 2.0; all zero.
GenData == { Vec(5, 5, 0), Vec(8, 8, 0), Vec(9, 1, 1), Vec(-9, 1, 1),
             Vec(20, -20, 5), BoundaryData, Vec(0, 0, 0) }
\* generateConceptVector(): a fresh vector, not corrupted, not top-k
generateConceptVector(data) == [data |-> data, isCorrupted |-> FALSE, isTopK |-> FALSE]
\* the reference vectors the model draws for the similarity check
RefData == { Vec(5, 5, 0), Vec(-5, -5, 0), Vec(9, 1, 1), Vec(0, 0, 0) }
\* the draws the node is run with: a vector with one coordinate 0.9 and a
\* vector of variance 4.0; a reference close to 0.5 everywhere and its opposite
NodeGenData == { Vec(9, 1, 1), Vec(20, -20, 5) }
NodeRefData == { Vec(5, 5, 0), Vec(-5, -5, 0) }

\* operator<<(double) under std::fixed << std::setprecision(6): the value as
\* a signed count of units of 1e-6 (a multiple of 0.1 has no further digits)
Render6(t) == t * MicroPerTenth

\* computeSemanticDigest: the rendered coordinates, in order, hashed.
\* std::hash<std::string> is deterministic in the rendered text; the model
\* keeps the rendered text itself, i.e. takes the hash to be collision-free.
computeSemanticDigest(cv) == [i \in 1..Len(cv.data) |-> Render6(cv.data[i])]

\* abs(val) of isTopKConcept, val a double of t tenths: |val|, or |val|
\* after the conversion of val to int (truncation toward zero)
AbsVal(t) ==
    IF absTruncates THEN (Abs(t) \div TenthsPerUnit) * TenthsPerUnit ELSE Abs(t)

\* isTopKConcept: some abs(coordinate) > 0.8, else the isTopK flag
isTopKConcept(cv) ==
    \/ \E i \in 1..Len(cv.data) : AbsVal(cv.data[i]) > TopKLimitTenths
    \/ cv.isTopK

\* every coordinate sequence the model handles
Vectors == GenData \cup RefData \cup NodeGenData \cup NodeRefData

\* dot += a[i] * b[i] over the coordinates, for each pair of vectors of the
\* model, computed once
DotProducts ==
    [a \in Vectors |-> [b \in Vectors |-> SumSeq([i \in 1..Len(a) |-> a[i] * b[i]])]]
Dot(a, b) == DotProducts[a][b]

\* SUM (n t_i - S)^2 over the n coordinates t_i of data, S their sum
SquaredDeviations(data, n, S) ==
    SumSeq([i \in 1..n |-> (n * data[i] - S) * (n * data[i] - S)])

\* the squared deviations of each vector of the model, computed once
Deviations == [data \in Vectors |-> SquaredDeviations(data, Len(data), SumSeq(data))]

\* the variance test with the limit itself rejected
VarianceTooHighInclusive(data) ==
    /\ Len(data) > 0
    /\ Deviations[data] >= VarianceLimit * Len(data) * Len(data) * Len(data)

\* variance > 2.0 for the population variance of verifySemanticIntegrity:
\* with n coordinates t_i tenths of sum S, variance = SUM (n t_i - S)^2 / (100 n^3).
\* An empty vector gives 0/0, which compares false.
VarianceTooHigh(data) ==
    /\ Len(data) > 0
    /\ Deviations[data] > VarianceLimit * Len(data) * Len(data) * Len(data)

\* dot / (sqrt(normA) * sqrt(normB)) < c / CosScale, for c >= 0 and norms
\* that may be zero (the function then returns 0.0)
CosineBelow(dot, normA, normB, c) ==
    IF normA = 0 \/ normB = 0
    THEN 0 < c
    ELSE \/ dot < 0
         \/ CosScale * CosScale * dot * dot < c * c * normA * normB

\* calculateCosineSimilarity(a, b) < c / CosScale, for c >= 0: the function
\* returns 0.0 when the sizes differ or a norm is zero, else
\* dot / (sqrt(normA) * sqrt(normB)).
SimilarityBelow(a, b, c) ==
    IF Len(a) # Len(b)
    THEN 0 < c
    ELSE CosineBelow(Dot(a, b), Dot(a, a), Dot(b, b), c)

\* verification that rejects everything when it is switched off
verifyDisabledRejects(tx, ref) ==
    /\ semanticVerification
    /\ computeSemanticDigest(tx.conceptVector) = tx.semanticDigest
    /\ ~VarianceTooHigh(tx.conceptVector.data)
    /\ ~(/\ isTopKConcept(tx.conceptVector)
         /\ SimilarityBelow(tx.conceptVector.data, ref.data, cosineSimilarityThreshold))

\* verifySemanticIntegrity(tx), with ref the vector its generateConceptVector()
\* call draws for the similarity check
verifySemanticIntegrity(tx, ref) ==
    IF ~semanticVerification THEN TRUE
    ELSE /\ computeSemanticDigest(tx.conceptVector) = tx.semanticDigest
         /\ ~VarianceTooHigh(tx.conceptVector.data)
         /\ ~(/\ isTopKConcept(tx.conceptVector)
              /\ SimilarityBelow(tx.conceptVector.data, ref.data,
                                 cosineSimilarityThreshold))

(***************************************************************************)
(* Packets on the wire, as socketDataArrived parses them.                  *)
(***************************************************************************)
MsgTypes == {"PROPOSE", "VOTE", "COMMIT"}
\* ids as sendTransaction forms them
TxIdOf(node, counter) == counter + node * IdStride
\* the ids on the wire: the first one of this node and the first one of node 2
TxIds == {TxIdOf(SelfId, 1), TxIdOf(2, 1)}
\* "TRANSACTION:<id> <originator> <timestamp>"
TransactionPackets ==
    {[kind |-> "TRANSACTION", id |-> i, originator |-> i \div IdStride, timestamp |-> t] :
        i \in TxIds, t \in 0..(MaxTime \div TicksPerUs)}
\* "CONSENSUS:<type> <transactionId> <senderId> <vote> <timestamp>"; the
\* timestamp of a consensus message is never read and is left out
ConsensusPackets ==
    {[kind |-> "CONSENSUS", type |-> "VOTE", transactionId |-> i, senderId |-> n, vote |-> v] :
        i \in TxIds, n \in NodeIds, v \in BOOLEAN}
    \cup {[kind |-> "CONSENSUS", type |-> ty, transactionId |-> TxIdOf(2, 1), senderId |-> 2,
           vote |-> TRUE] : ty \in MsgTypes \ {"VOTE"}}
Signal(name, num, den) == [signal |-> name, num |-> num, den |-> den]

(***************************************************************************)
(* The counters processCocoChainConsensus works on, as a record.           *)
(***************************************************************************)
Counters == [fp |-> totalFalsePositives, valid |-> totalValidTransactions,
             malformed |-> totalMalformedDetected, emits |-> << >>]

\* updateFalsePositiveRate(wasValid, wasRejected) on the counters c
updateFalsePositiveRate(c, wasValid, wasRejected) ==
    LET fp == IF wasValid /\ wasRejected THEN c.fp + 1 ELSE c.fp
    IN  [c EXCEPT !.fp = fp,
                  !.emits = IF c.valid + c.malformed > 0
                            THEN Append(@, Signal("falsePositiveRate", fp, c.valid + fp))
                            ELSE @]

\* processCocoChainConsensus(tx): its result and the counters after it; r1 is
\* the reference vector drawn inside verifySemanticIntegrity, r2 the one drawn
\* for its own similarity check
processCocoChainConsensus(tx, r1, r2) ==
    IF ~verifySemanticIntegrity(tx, r1)
    THEN [result |-> FALSE, c |-> Counters]
    ELSE IF /\ isTopKConcept(tx.conceptVector)
            /\ SimilarityBelow(tx.conceptVector.data, r2.data, cosineSimilarityThreshold)
         THEN [result |-> FALSE,
               c |-> IF ~tx.conceptVector.isCorrupted
                     THEN updateFalsePositiveRate([Counters EXCEPT !.fp = @ + 1], TRUE, TRUE)
                     ELSE Counters]
         ELSE [result |-> TRUE,
               c |-> IF tx.conceptVector.isCorrupted
                     THEN [Counters EXCEPT !.malformed = @ + 1,
                                           !.emits = Append(@, Signal("malformedDetected", 1, 1))]
                     ELSE updateFalsePositiveRate([Counters EXCEPT !.valid = @ + 1], TRUE, FALSE)]

\* if (age > maxTransactionAge), age = simTime() - SimTime(tx.timestamp, SIMTIME_US)
Age(tx) == now - tx.timestamp * TicksPerUs
\* the staleness test with the limit itself dropped
IsStaleInclusive(tx) == Age(tx) >= maxTransactionAge
IsStale(tx) == Age(tx) > maxTransactionAge

\* the vote startConsensus broadcasts; r3 is the reference vector its
\* verifySemanticIntegrity call draws
VotePacket(tx, r3) ==
    [kind |-> "CONSENSUS", type |-> "VOTE", transactionId |-> tx.id,
     senderId |-> SelfId, vote |-> verifySemanticIntegrity(tx, r3)]

(***************************************************************************)
(* Consensus.                                                              *)
(***************************************************************************)
\* int requiredVotes = static_cast<int>(estimatedNetworkSize * bftThreshold):
\* the product truncated toward zero
RequiredVotes == (EstimatedNetworkSize * bftThreshold) \div BftScale
\* the loop counting vote.vote over the vote list
PositiveVotes(votes) == Cardinality({i \in 1..Len(votes) : votes[i].vote})
\* the quorum test with one vote more than required
EnoughVotesStrict(totalVotes) == totalVotes > RequiredVotes
\* if (totalVotes >= requiredVotes)
EnoughVotes(totalVotes) == totalVotes >= RequiredVotes
\* a consensus that needs one accept vote more than required
ConsensusStrict(positiveVotes) == positiveVotes > RequiredVotes
\* bool consensus = (positiveVotes >= requiredVotes)
Consensus(positiveVotes) == positiveVotes >= RequiredVotes
VotesOf(m, id) == IF id \in DOMAIN m THEN m[id] ELSE << >>

Overhead == Signal("consensusOverhead", 1, 1)
config == <<bftThreshold, semanticVerification, cosineSimilarityThreshold, absTruncates>>
counterVars == <<totalMalformedDetected, totalFalsePositives, totalValidTransactions>>
throughputVars == <<totalThroughput, lastThroughputUpdate>>
history == <<acceptSeen, rejections>>
\* 1.0 s of simulation time, in ticks
OneSecond == 1000000 * TicksPerUs

\* the latency measured from the start of the simulation
LatencyFromZero(txId) == now
\* simtime_t latency = simTime() - transactionStartTimes[txId]
Latency(txId) == now - transactionStartTimes[txId]

\* finalizeTransaction(txId), entered with the vote lists votes (the vote of
\* the message being processed already pushed)
finalizeTransaction(txId, votes) ==
    IF txId \in confirmedTransactions
    THEN /\ consensusVotes' = votes
         /\ emitted' = <<Overhead>>
         /\ log' = "none"
         /\ UNCHANGED <<confirmedTransactions, transactionStartTimes, pendingTransactions>>
    ELSE /\ confirmedTransactions' = confirmedTransactions \cup {txId}
         /\ IF txId \in DOMAIN transactionStartTimes
            THEN /\ emitted' = <<Overhead,
                                 Signal("endToEndLatency", Latency(txId), 1)>>
                 /\ transactionStartTimes' = MapErase(transactionStartTimes, txId)
                 /\ log' = "confirmed_with_latency"
            ELSE /\ emitted' = <<Overhead>>
                 /\ log' = "none"
                 /\ UNCHANGED transactionStartTimes
         /\ pendingTransactions' = MapErase(pendingTransactions, txId)
         /\ consensusVotes' = MapErase(votes, txId)

\* processConsensusMessage(msg)
processConsensusMessage(msg) ==
    IF msg.type # "VOTE"
    THEN /\ emitted' = <<Overhead>>
         /\ log' = "none"
         /\ UNCHANGED <<pendingTransactions, consensusVotes, confirmedTransactions,
                        transactionStartTimes, history>>
    ELSE LET id == msg.transactionId
             list == Append(VotesOf(consensusVotes, id), msg)
             votes == MapPut(consensusVotes, id, list)
             totalVotes == Len(list)
             positiveVotes == PositiveVotes(list)
         IN  /\ acceptSeen' = IF msg.vote
                              THEN [acceptSeen EXCEPT ![id] = @ \cup {msg.senderId}]
                              ELSE acceptSeen
             /\ IF EnoughVotes(totalVotes)
                THEN IF Consensus(positiveVotes)
                     THEN /\ finalizeTransaction(id, votes)
                          /\ UNCHANGED rejections
                     ELSE /\ pendingTransactions' = MapErase(pendingTransactions, id)
                          /\ consensusVotes' = MapErase(votes, id)
                          /\ rejections' = [rejections EXCEPT ![id] = @ + 1]
                          /\ emitted' = <<Overhead>>
                          /\ log' = "rejected_by_consensus"
                          /\ UNCHANGED <<confirmedTransactions, transactionStartTimes>>
                ELSE /\ consensusVotes' = votes
                     /\ emitted' = <<Overhead>>
                     /\ log' = "none"
                     /\ UNCHANGED <<pendingTransactions, confirmedTransactions,
                                    transactionStartTimes, rejections>>

\* the rest of processReceivedTransaction once the transaction is neither the
\* node's own nor stale: coco is what processCocoChainConsensus(tx) gave,
\* vote the packet startConsensus(tx) builds when it is reached
verifyAndVote(tx, coco, vote) ==
    /\ totalFalsePositives' = coco.c.fp
    /\ totalValidTransactions' = coco.c.valid
    /\ totalMalformedDetected' = coco.c.malformed
    /\ emitted' = <<Overhead>> \o coco.c.emits
    /\ IF ~coco.result
       THEN /\ log' = "rejected_malformed"
            /\ sent' = << >>
            /\ UNCHANGED pendingTransactions
       ELSE /\ pendingTransactions' = MapPut(pendingTransactions, tx.id, tx)
            /\ sent' = <<vote>>
            /\ log' = IF vote.vote THEN "vote_positive" ELSE "vote_negative"

\* a handler that treats the node's own transactions like any other
processOwnToo(tx, r1, r2, r3) ==
    IF IsStale(tx)
    THEN /\ log' = "dropped_old"
         /\ emitted' = <<Overhead>>
         /\ sent' = << >>
         /\ UNCHANGED <<pendingTransactions, counterVars>>
    ELSE verifyAndVote(tx, processCocoChainConsensus(tx, r1, r2), VotePacket(tx, r3))

\* processReceivedTransaction(tx); r1, r2, r3 are the reference vectors its
\* three similarity checks draw (enablePbftComparison is off: its branch
\* only writes a log line)
processReceivedTransaction(tx, r1, r2, r3) ==
    IF tx.originator = SelfId
    THEN /\ log' = "none"
         /\ emitted' = <<Overhead>>
         /\ sent' = << >>
         /\ UNCHANGED <<pendingTransactions, counterVars>>
    ELSE IF IsStale(tx)
    THEN /\ log' = "dropped_old"
         /\ emitted' = <<Overhead>>
         /\ sent' = << >>
         /\ UNCHANGED <<pendingTransactions, counterVars>>
    ELSE verifyAndVote(tx, processCocoChainConsensus(tx, r1, r2), VotePacket(tx, r3))

(***************************************************************************)
(* Actions: the timer and the three kinds of packet socketDataArrived      *)
(* tells apart, and the passage of simulation time.                        *)
(***************************************************************************)
\* handleMessageWhenUp(sendTimer): sendTransaction().  The vector and digest
\* it builds (BuildTransaction) stay in the local tx and are not part of the
\* packet.
SendTransaction ==
    /\ transactionCounter < MaxSends
    /\ LET id == TxIdOf(SelfId, transactionCounter + 1)
           flush == now - lastThroughputUpdate >= OneSecond
       IN  /\ transactionCounter' = transactionCounter + 1
           /\ transactionStartTimes' = MapPut(transactionStartTimes, id, now)
           /\ totalThroughput' = IF flush THEN 0 ELSE totalThroughput + 1
           /\ lastThroughputUpdate' = IF flush THEN now ELSE lastThroughputUpdate
           /\ emitted' = IF flush THEN <<Signal("throughput", totalThroughput + 1, 1)>>
                         ELSE << >>
           /\ sent' = <<[kind |-> "TRANSACTION", id |-> id, originator |-> SelfId,
                         timestamp |-> now \div TicksPerUs]>>
           /\ log' = "transaction_sent"
    /\ UNCHANGED <<config, pendingTransactions, consensusVotes, confirmedTransactions,
                   totalMessagesReceived, counterVars, now, history, verifyVars,
                   idVars, createVars, sideVars, highwayVars>>

\* the transaction socketDataArrived builds from the packet p and the vector
\* it generates itself
ReceivedTx(p, data) ==
    LET cv == generateConceptVector(data)
    IN  [id |-> p.id, originator |-> p.originator, timestamp |-> p.timestamp,
         conceptVector |-> cv, semanticDigest |-> computeSemanticDigest(cv)]
\* the vectors the handler can generate for p: the two early returns of
\* processReceivedTransaction never read the vector, one stands for all there
GenDraws(p) ==
    IF p.originator = SelfId \/ IsStale(p)
    THEN {CHOOSE data \in NodeGenData : TRUE}
    ELSE NodeGenData
\* verifySemanticIntegrity(tx) reaches its generateConceptVector() call
VerifyDraws(tx) ==
    /\ semanticVerification
    /\ computeSemanticDigest(tx.conceptVector) = tx.semanticDigest
    /\ ~VarianceTooHigh(tx.conceptVector.data)
    /\ isTopKConcept(tx.conceptVector)
\* The reference vectors one run of the handler draws: d1 in the
\* verifySemanticIntegrity call of processCocoChainConsensus, d2 in
\* processCocoChainConsensus itself, d3 in the verifySemanticIntegrity call of
\* startConsensus.  A call that is not reached, or does not reach its
\* generateConceptVector(), draws nothing: its argument is then never read,
\* and repeats the one before it.
FirstDraws(p, tx) ==
    IF p.originator # SelfId /\ ~IsStale(p) /\ VerifyDraws(tx)
    THEN NodeRefData
    ELSE {CHOOSE data \in NodeRefData : TRUE}
SecondDraws(tx, d1) ==
    IF /\ verifySemanticIntegrity(tx, generateConceptVector(d1))
       /\ isTopKConcept(tx.conceptVector)
    THEN NodeRefData ELSE {d1}
ThirdDraws(tx, d1, d2) ==
    IF /\ VerifyDraws(tx)
       /\ processCocoChainConsensus(tx, generateConceptVector(d1),
                                    generateConceptVector(d2)).result
    THEN NodeRefData ELSE {d2}

\* socketDataArrived on a "TRANSACTION:" packet created no later than now; the
\* receiver generates the concept vector and its digest itself
ReceiveTransactionPacket(p) ==
    /\ totalMessagesReceived' = totalMessagesReceived + 1
    /\ p.timestamp * TicksPerUs <= now
    /\ \E data \in GenDraws(p) :
         LET tx == ReceivedTx(p, data)
         IN  \E d1 \in FirstDraws(p, tx) :
                 \E d2 \in SecondDraws(tx, d1) :
                     \E d3 \in ThirdDraws(tx, d1, d2) :
                         processReceivedTransaction(tx, generateConceptVector(d1),
                                                    generateConceptVector(d2),
                                                    generateConceptVector(d3))
    /\ UNCHANGED <<config, consensusVotes, confirmedTransactions, transactionStartTimes,
                   transactionCounter, throughputVars, now, history, verifyVars,
                   idVars, createVars, sideVars, highwayVars>>
ReceiveTransaction ==
    /\ totalMessagesReceived < MaxMessages
    /\ \E p \in TransactionPackets : ReceiveTransactionPacket(p)

\* socketDataArrived on a "CONSENSUS:" packet
ReceiveConsensusPacket(p) ==
    /\ totalMessagesReceived' = totalMessagesReceived + 1
    /\ sent' = << >>
    /\ processConsensusMessage(p)
    /\ UNCHANGED <<config, transactionCounter, counterVars, throughputVars, now,
                   verifyVars, idVars, createVars, sideVars, highwayVars>>
ReceiveConsensus ==
    /\ totalMessagesReceived < MaxMessages
    /\ \E p \in ConsensusPackets : ReceiveConsensusPacket(p)

\* The text after "CONSENSUS:" as the fields operator>> meets, separated by
\* white space: a field is a decimal number (Num) or not one (Bad).
Num(n) == [ok |-> TRUE, val |-> n]
Bad == [ok |-> FALSE, val |-> 0]
\* static_cast<ConsensusMessage::Type>(type)
TypeOf(n) == IF n = 0 THEN "PROPOSE" ELSE IF n = 1 THEN "VOTE"
             ELSE IF n = 2 THEN "COMMIT" ELSE "OTHER"
\* the i-th extraction of the chain succeeds: the stream has not failed and
\* the i-th field is a number
Extracted(fields, i) == \A j \in 1..i : j <= Len(fields) /\ fields[j].ok
\* the i-th extraction is the one that fails, on a field that is there and
\* is no number: it stores zero in its target
StoresZero(fields, i) ==
    /\ Extracted(fields, i - 1)
    /\ i <= Len(fields)
    /\ ~fields[i].ok
\* iss >> type >> msg.transactionId >> msg.senderId >> msg.vote >> msg.timestamp
\* on a ConsensusMessage and an int that are not initialized: the messages
\* the chain can leave behind.  An extraction that is not reached with the
\* stream still good (a field before it failed, or the text has ended)
\* stores nothing, and its target keeps an indeterminate value, taken here
\* from the values a well-formed packet can carry.
ParseConsensus(fields) ==
    LET types == IF Extracted(fields, 1) THEN {TypeOf(fields[1].val)}
                 ELSE IF StoresZero(fields, 1) THEN {TypeOf(0)} ELSE MsgTypes
        ids == IF Extracted(fields, 2) THEN {fields[2].val}
               ELSE IF StoresZero(fields, 2) THEN {0} ELSE TxIds
        senders == IF Extracted(fields, 3) THEN {fields[3].val}
                   ELSE IF StoresZero(fields, 3) THEN {0} ELSE NodeIds
        votes == IF Extracted(fields, 4) THEN {fields[4].val # 0}
                 ELSE IF StoresZero(fields, 4) THEN {FALSE} ELSE BOOLEAN
    IN  {[kind |-> "CONSENSUS", type |-> ty, transactionId |-> i, senderId |-> n,
          vote |-> v] : ty \in types, i \in ids, n \in senders, v \in votes}
\* the malformed texts the model delivers: "CONSENSUS:"; "CONSENSUS:x";
\* "CONSENSUS:1 <id>"; "CONSENSUS:1 <id> 2"; "CONSENSUS:1 <id> 2 x 0"
MalformedConsensus ==
    {<< >>, <<Bad>>}
    \cup {<<Num(1), Num(i)>> : i \in TxIds}
    \cup {<<Num(1), Num(i), Num(2)>> : i \in TxIds}
    \cup {<<Num(1), Num(i), Num(2), Bad, Num(0)>> : i \in TxIds}

\* socketDataArrived on a "CONSENSUS:" packet whose text is fields
ReceiveConsensusText(fields) ==
    \E msg \in ParseConsensus(fields) : ReceiveConsensusPacket(msg)
ReceiveMalformedConsensus ==
    /\ totalMessagesReceived < MaxMessages
    /\ \E fields \in MalformedConsensus : ReceiveConsensusText(fields)

\* socketDataArrived on a packet that starts with neither prefix
ReceiveOther ==
    /\ totalMessagesReceived < MaxMessages
    /\ totalMessagesReceived' = totalMessagesReceived + 1
    /\ emitted' = <<Overhead>>
    /\ sent' = << >>
    /\ log' = "none"
    /\ UNCHANGED <<config, pendingTransactions, consensusVotes, confirmedTransactions,
                   transactionStartTimes, transactionCounter, counterVars,
                   throughputVars, now, history, verifyVars, idVars, createVars, sideVars,
                   highwayVars>>

\* simulation time advances between events
Tick ==
    /\ now < MaxTime
    /\ now' = now + 1
    /\ UNCHANGED <<config, pendingTransactions, consensusVotes, confirmedTransactions,
                   transactionStartTimes, transactionCounter, totalMessagesReceived,
                   counterVars, throughputVars, sent, emitted, log, history, verifyVars,
                   idVars, createVars, sideVars, highwayVars>>

NoTx == [id |-> 0]
InitNode ==
    /\ pendingTransactions = EmptyMap
    /\ consensusVotes = EmptyMap
    /\ confirmedTransactions = {}
    /\ transactionStartTimes = EmptyMap
    /\ transactionCounter = 0
    /\ totalMessagesReceived = 0
    /\ totalMalformedDetected = 0
    /\ totalFalsePositives = 0
    /\ totalValidTransactions = 0
    /\ totalThroughput = 0
    /\ lastThroughputUpdate = 0
    /\ now = 0
    /\ sent = << >>
    /\ emitted = << >>
    /\ log = "none"
    /\ acceptSeen = [i \in TxIds |-> {}]
    /\ rejections = [i \in TxIds |-> 0]
\* an honest node, and no transaction built in the harness
NoDraws == [data |-> << >>]
NoCreation ==
    /\ adversarialNodes = {}
    /\ rngDraws = NoDraws
    /\ createdTx = NoTx
\* findNearestRSU not called in the harness
NoProbe ==
    /\ probePosition = 0
    /\ probeCalled = FALSE
    /\ probeNearest = 0
\* the nodes that vote in the network scenario, and the first transaction
\* of the node, neither a receiver nor a voter, next after them
Voters == (MaxNode + 1)..(MaxNode + MaxVoters)
NetTx == TxIdOf(MaxNode + MaxVoters + 1, 1)
\* the fields of a node that has stored the transaction (it received it,
\* accepted it and cast its own vote) and has received no vote
StoredPeer ==
    [pendingTransactions |->
         MapPut(EmptyMap, NetTx, [id |-> NetTx, originator |-> NetTx \div IdStride]),
     consensusVotes |-> EmptyMap,
     confirmedTransactions |-> {},
     log |-> "none",
     rejected |-> {}]
\* the network scenario is not run: no node in it
NoNetwork ==
    /\ peers = << >>
    /\ channel = << >>
    /\ voted = {}
\* no transaction created yet on any node
InitIds ==
    /\ idCounter = [n \in NodeIds |-> 0]
    /\ issued = {}
\* the RSUs deployed: RSUApp modules of index 0 and 1
RsuIds == {0, 1}
\* VehicleApp::VehicleApp() and RSUApp::RSUApp(): the fields after construction
InitVehicle ==
    /\ currentRSU = -1
    /\ targetRSU = -1
    /\ inHandover = FALSE
    /\ rsuContactTimes = EmptyMap
    /\ vehicleCounter = 0
    /\ vehiclePending = EmptyMap
InitRsus ==
    /\ totalHandovers = [r \in RsuIds |-> 0]
    /\ successfulHandovers = [r \in RsuIds |-> 0]
    /\ timers = [r \in RsuIds |-> 0]
    /\ handoverQueue = [r \in RsuIds |-> << >>]
    /\ lastOutcome = [r \in RsuIds |-> "none"]
    /\ lastEvent = "none"
    /\ txQueue = [r \in RsuIds |-> << >>]
    /\ activeTransactions = [r \in RsuIds |-> EmptyMap]
    /\ throughputCounter = [r \in RsuIds |-> 0]
\* no vehicle and no RSU has run
InitRoad == mobility = FALSE /\ usePBFT = FALSE /\ InitVehicle /\ InitRsus

\* the node after initialize(), with semantic verification on and the default
\* similarity threshold, under each bftThreshold of the model and each build
Init ==
    /\ bftThreshold \in BftThresholds
    /\ semanticVerification = TRUE
    /\ cosineSimilarityThreshold = 2
    /\ absTruncates \in BOOLEAN
    /\ InitNode
    /\ NoCreation
    /\ NoProbe
    /\ NoNetwork
    /\ InitIds
    /\ InitRoad
    /\ vTx = NoTx
    /\ vRef = NoTx
    /\ vCalled = FALSE
    /\ vResult = FALSE

Next ==
    \/ SendTransaction
    \/ ReceiveTransaction
    \/ ReceiveConsensus
    \/ ReceiveOther
    \/ Tick

Spec == Init /\ [][Next]_vars

(***************************************************************************)
(* The end of the simulation: finish() is called once, after the last      *)
(* event, and records the scalars of the node.  A recorded scalar is held  *)
(* like an emitted signal, under its name.                                 *)
(***************************************************************************)
\* the scalars finish() records, "Final FPR" only when its denominator is
\* positive
FinalScalars ==
    <<Signal("Total messages received", totalMessagesReceived, 1),
      Signal("Total malformed detected", totalMalformedDetected, 1),
      Signal("Total false positives", totalFalsePositives, 1),
      Signal("Total valid transactions", totalValidTransactions, 1),
      Signal("Confirmed transactions", Cardinality(confirmedTransactions), 1)>>
    \o (IF totalValidTransactions + totalFalsePositives > 0
        THEN <<Signal("Final FPR", totalFalsePositives,
                      totalValidTransactions + totalFalsePositives)>>
        ELSE << >>)

\* finish()
Finish ==
    /\ log # "finished"
    /\ log' = "finished"
    /\ emitted' = FinalScalars
    /\ sent' = << >>
    /\ UNCHANGED <<config, pendingTransactions, consensusVotes, confirmedTransactions,
                   transactionStartTimes, transactionCounter, totalMessagesReceived,
                   counterVars, throughputVars, now, history, verifyVars,
                   idVars, createVars, sideVars, highwayVars>>

\* an event of the node before the simulation has ended
Running == log # "finished" /\ Next

NextFinish ==
    \/ Running
    \/ Finish

SpecFinish == Init /\ [][NextFinish]_vars

(***************************************************************************)
(* The node on a network that also delivers consensus packets whose text   *)
(* is malformed.                                                           *)
(***************************************************************************)
NextWire ==
    \/ Next
    \/ ReceiveMalformedConsensus

SpecWire == Init /\ [][NextWire]_vars

(***************************************************************************)
(* The node on a network whose nodes only announce transactions: what is   *)
(* delivered to it are "TRANSACTION:" packets, its own broadcast among     *)
(* them.                                                                   *)
(***************************************************************************)
NextAnnounce ==
    \/ SendTransaction
    \/ ReceiveTransaction
    \/ Tick

SpecAnnounce == Init /\ [][NextAnnounce]_vars

(***************************************************************************)
(* The network scenario: the nodes of NodeIds have stored one transaction  *)
(* and receive the votes the voters broadcast on it.  A broadcast reaches  *)
(* every node; the votes of one voter reach a node in the order sent, the  *)
(* votes of different voters in any order.  Each node runs                 *)
(* processConsensusMessage on its own fields; the nodes did not create the *)
(* transaction, so no latency is measured, and the signals are left out.   *)
(***************************************************************************)
\* finalizeTransaction(txId) on the fields st of a node, entered with the vote
\* lists votes
finalizeTransactionOn(st, txId, votes) ==
    IF txId \in st.confirmedTransactions
    THEN [st EXCEPT !.consensusVotes = votes, !.log = "none"]
    ELSE [st EXCEPT !.confirmedTransactions = @ \cup {txId},
                    !.pendingTransactions = MapErase(@, txId),
                    !.consensusVotes = MapErase(votes, txId),
                    !.log = "none"]

\* processConsensusMessage(msg) on the fields st of a node
processConsensusMessageOn(st, msg) ==
    IF msg.type # "VOTE" THEN [st EXCEPT !.log = "none"]
    ELSE LET id == msg.transactionId
             list == Append(VotesOf(st.consensusVotes, id), msg)
             votes == MapPut(st.consensusVotes, id, list)
         IN  IF EnoughVotes(Len(list))
             THEN IF Consensus(PositiveVotes(list))
                  THEN finalizeTransactionOn(st, id, votes)
                  ELSE [st EXCEPT !.pendingTransactions = MapErase(@, id),
                                  !.consensusVotes = MapErase(votes, id),
                                  !.rejected = @ \cup {id},
                                  !.log = "rejected_by_consensus"]
             ELSE [st EXCEPT !.consensusVotes = votes, !.log = "none"]

\* startConsensus(tx) on voter v: its vote, accept or reject as its
\* verifySemanticIntegrity decides, is broadcast and queued for every node
CastVote(v, vote) ==
    /\ v \notin voted
    /\ voted' = voted \cup {v}
    /\ LET msg == [kind |-> "CONSENSUS", type |-> "VOTE", transactionId |-> NetTx,
                   senderId |-> v, vote |-> vote]
       IN  channel' = [n \in NodeIds |-> [channel[n] EXCEPT ![v] = Append(@, msg)]]
    /\ UNCHANGED <<peers, nodeVars, verifyVars, config, idVars, createVars,
                   probePosition, probeCalled, probeNearest, highwayVars>>

\* socketDataArrived of node n on the oldest vote of voter v in flight to it
DeliverVote(n, v) ==
    /\ channel[n][v] # << >>
    /\ channel' = [channel EXCEPT ![n][v] = Tail(@)]
    /\ peers' = [peers EXCEPT ![n] = processConsensusMessageOn(@, Head(channel[n][v]))]
    /\ UNCHANGED <<voted, nodeVars, verifyVars, config, idVars, createVars,
                   probePosition, probeCalled, probeNearest, highwayVars>>

\* the nodes after initialize(), under each bftThreshold of the model
InitNetwork ==
    /\ bftThreshold \in BftThresholds
    /\ semanticVerification = TRUE
    /\ cosineSimilarityThreshold = 2
    /\ absTruncates = FALSE
    /\ InitNode
    /\ NoCreation
    /\ NoProbe
    /\ InitIds
    /\ InitRoad
    /\ vTx = NoTx
    /\ vRef = NoTx
    /\ vCalled = FALSE
    /\ vResult = FALSE
    \* every node has stored the transaction; no vote cast, none in flight
    /\ peers = [n \in NodeIds |-> StoredPeer]
    /\ channel = [n \in NodeIds |-> [v \in Voters |-> << >>]]
    /\ voted = {}

NextNetwork ==
    \/ \E v \in Voters : \E vote \in BOOLEAN : CastVote(v, vote)
    \/ \E n \in NodeIds : \E v \in Voters : DeliverVote(n, v)

SpecNetwork == InitNetwork /\ [][NextNetwork]_vars

(***************************************************************************)
(* verifySemanticIntegrity as a function: the transaction, the reference   *)
(* vector and the configuration are drawn, and the function is applied.    *)
(***************************************************************************)
\* the digests a transaction may carry for the vector data: its own, or
\* that of another vector
StoredDigests(data) ==
    {computeSemanticDigest(generateConceptVector(x)) : x \in {data, Vec(5, 5, 0), Vec(8, 8, 0)}}
VerifyInputs ==
    {[id |-> TxIdOf(2, 1), originator |-> 2, timestamp |-> 0,
      conceptVector |-> [data |-> d, isCorrupted |-> c, isTopK |-> k],
      semanticDigest |-> g] :
        d \in GenData, c \in BOOLEAN, k \in BOOLEAN, g \in UNION {StoredDigests(x) : x \in GenData}}

InitVerify ==
    /\ bftThreshold = 25
    /\ semanticVerification \in BOOLEAN
    /\ cosineSimilarityThreshold \in CosThresholds
    /\ absTruncates \in BOOLEAN
    /\ InitNode
    /\ NoCreation
    /\ NoProbe
    /\ NoNetwork
    /\ InitIds
    /\ InitRoad
    /\ vTx \in {t \in VerifyInputs : t.semanticDigest \in StoredDigests(t.conceptVector.data)}
    /\ vRef \in {generateConceptVector(d) : d \in RefData}
    /\ vCalled = FALSE
    /\ vResult = FALSE

CallVerify ==
    /\ ~vCalled
    /\ vCalled' = TRUE
    /\ vResult' = verifySemanticIntegrity(vTx, vRef)
    /\ UNCHANGED <<nodeVars, vTx, vRef, config, idVars, createVars, sideVars, highwayVars>>

SpecVerify == InitVerify /\ [][CallVerify]_vars

(***************************************************************************)
(* processCocoChainConsensus as a function of the transaction it is given, *)
(* the corrupted flag of its vector included, applied to the counters of a *)
(* node that has received nothing yet.                                     *)
(***************************************************************************)
\* the reference vectors the similarity check of processCocoChainConsensus
\* itself can draw: it draws when verifySemanticIntegrity passed and the
\* vector is a top concept
CocoDraws(tx, ref) ==
    IF verifySemanticIntegrity(tx, ref) /\ isTopKConcept(tx.conceptVector)
    THEN RefData ELSE {ref.data}

\* bool cocoChainResult = processCocoChainConsensus(tx), with vRef the vector
\* its verifySemanticIntegrity call draws
CallCoco ==
    /\ ~vCalled
    /\ vCalled' = TRUE
    /\ \E d2 \in CocoDraws(vTx, vRef) :
         LET coco == processCocoChainConsensus(vTx, vRef, generateConceptVector(d2))
         IN  /\ vResult' = coco.result
             /\ totalFalsePositives' = coco.c.fp
             /\ totalValidTransactions' = coco.c.valid
             /\ totalMalformedDetected' = coco.c.malformed
             /\ emitted' = coco.c.emits
    /\ UNCHANGED <<bftThreshold, pendingTransactions, consensusVotes,
                   confirmedTransactions, transactionStartTimes, transactionCounter,
                   totalMessagesReceived, throughputVars, now, sent, log, history,
                   vTx, vRef, semanticVerification, cosineSimilarityThreshold,
                   absTruncates, idVars, createVars, sideVars, highwayVars>>

SpecCoco == InitVerify /\ [][CallCoco]_vars

(***************************************************************************)
(* The transaction sendTransaction builds, as a function of the values     *)
(* the random number generators give and of adversarialNodes.  The factor  *)
(* 1.0 + uniform(-0.5, 0.5) of corruptConceptVector and the factor         *)
(* uniform(1.5, 3.0) of manipulateTopKVector are held in halves; the       *)
(* vectors drawn keep every product a whole number of tenths.              *)
(***************************************************************************)
\* halves in 1.0
HalvesPerUnit == 2
\* the coordinates generateConceptVector draws: one 0.8 among 0.4s; all 0.4
CreateData == { Vec(8, 4, 1), Vec(4, 4, 0) }
\* the factors corruptConceptVector draws, one per coordinate: all 1.0; all
\* 0.5; 0.5 for the first coordinate and 1.0 for the others
NoiseDraws == { Vec(2, 2, 0), Vec(1, 1, 0), Vec(1, 2, 1) }
\* if (uniform(0, 1) < 0.5): not taken, or taken with idx the value of
\* intuniform(0, size - 1), counted from 1, and value that of uniform(-10, 10)
ExtremeDraws ==
    {[inject |-> FALSE, idx |-> 1, value |-> 0]}
    \cup {[inject |-> TRUE, idx |-> i, value |-> v] : i \in {1, ConceptDim}, v \in {-100, 96}}
\* if (uniform(0, 1) < 0.3): not taken, or taken with the factor
\* uniform(1.5, 3.0) in halves and the value of uniform(-0.1, 0.1) in tenths
TopKDraws ==
    {[mark |-> FALSE, amplify |-> 3, jitter |-> 0]}
    \cup {[mark |-> TRUE, amplify |-> a, jitter |-> j] : a \in {3, 4}, j \in {-1, 0}}
DrawSets ==
    [data : CreateData, noise : NoiseDraws, extreme : ExtremeDraws, topk : TopKDraws]

\* a corruption that leaves the corrupted flag as it was
corruptWithoutFlag(cv, noise) ==
    [cv EXCEPT !.data = [i \in 1..Len(cv.data) |-> (cv.data[i] * noise[i]) \div HalvesPerUnit]]
\* corruptConceptVector(cv), noise[i] the factor drawn for coordinate i
corruptConceptVector(cv, noise) ==
    [cv EXCEPT !.isCorrupted = TRUE,
               !.data = [i \in 1..Len(cv.data) |->
                            (cv.data[i] * noise[i]) \div HalvesPerUnit]]
\* std::max_element: the first of the greatest coordinates
MaxElement(data) ==
    CHOOSE m \in 1..Len(data) :
        /\ \A j \in 1..Len(data) : data[j] <= data[m]
        /\ \A j \in 1..(m - 1) : data[j] < data[m]
\* manipulateTopKVector(cv)
manipulateTopKVector(cv, amplify, jitter) ==
    [cv EXCEPT !.isTopK = TRUE,
               !.isCorrupted = TRUE,
               !.data = [i \in 1..Len(cv.data) |->
                            IF i = MaxElement(cv.data)
                            THEN (cv.data[i] * amplify) \div HalvesPerUnit
                            ELSE cv.data[i] + jitter]]
\* injectMalformedVector(cv), d the values it draws
injectMalformedVector(cv, d) ==
    LET corrupted == corruptConceptVector(cv, d.noise)
        injected == IF d.extreme.inject
                    THEN [corrupted EXCEPT !.data[d.extreme.idx] = d.extreme.value]
                    ELSE corrupted
    IN  IF d.topk.mark
        THEN manipulateTopKVector([injected EXCEPT !.isTopK = TRUE],
                                  d.topk.amplify, d.topk.jitter)
        ELSE injected
\* isAdversarialNode()
isAdversarialNode == SelfId \in adversarialNodes
\* a transaction whose digest is taken from the vector as generated, before
\* the adversarial transform
BuildDigestFirst(d) ==
    LET generated == generateConceptVector(d.data)
        cv == IF isAdversarialNode THEN injectMalformedVector(generated, d) ELSE generated
    IN  [id |-> TxIdOf(SelfId, transactionCounter + 1), originator |-> SelfId,
         timestamp |-> now \div TicksPerUs, conceptVector |-> cv,
         semanticDigest |-> computeSemanticDigest(generated)]
\* the Transaction tx of sendTransaction when it computes the digest
BuildTransaction(d) ==
    LET generated == generateConceptVector(d.data)
        cv == IF isAdversarialNode THEN injectMalformedVector(generated, d) ELSE generated
    IN  [id |-> TxIdOf(SelfId, transactionCounter + 1), originator |-> SelfId,
         timestamp |-> now \div TicksPerUs, conceptVector |-> cv,
         semanticDigest |-> computeSemanticDigest(cv)]

\* the node after initialize(), adversarial or not, and the values the
\* generators will give to its first sendTransaction
InitCreate ==
    /\ bftThreshold = 25
    /\ semanticVerification = TRUE
    /\ cosineSimilarityThreshold = 2
    /\ absTruncates = FALSE
    /\ InitNode
    /\ InitIds
    /\ InitRoad
    /\ vTx = NoTx
    /\ vRef = NoTx
    /\ vCalled = FALSE
    /\ vResult = FALSE
    /\ adversarialNodes \in {{}, {SelfId}}
    /\ rngDraws \in DrawSets
    /\ createdTx = NoTx
    /\ NoProbe
    /\ NoNetwork

\* sendTransaction() up to tx.semanticDigest = computeSemanticDigest(...)
CallCreate ==
    /\ createdTx = NoTx
    /\ createdTx' = BuildTransaction(rngDraws)
    /\ UNCHANGED <<nodeVars, verifyVars, config, idVars, adversarialNodes, rngDraws,
                   sideVars, highwayVars>>

SpecCreate == InitCreate /\ [][CallCreate]_vars

(***************************************************************************)
(* Id allocation: every node forms the ids of the transactions it creates  *)
(* from its module id and its transactionCounter.  The ids are uint64_t;   *)
(* the ids of the model stay far below 2^64, where the arithmetic of the   *)
(* code does not wrap.                                                     *)
(***************************************************************************)
\* the numbers of transactions a node has created when the model starts:
\* none, one short of the id stride, the id stride
StartCounters == {0, IdStride - 1, IdStride}

InitAlloc ==
    /\ bftThreshold = 25
    /\ semanticVerification = TRUE
    /\ cosineSimilarityThreshold = 2
    /\ absTruncates = FALSE
    /\ InitNode
    /\ NoCreation
    /\ NoProbe
    /\ NoNetwork
    /\ vTx = NoTx
    /\ vRef = NoTx
    /\ vCalled = FALSE
    /\ vResult = FALSE
    /\ idCounter \in [NodeIds -> StartCounters]
    /\ issued = {}
    /\ InitRoad

\* the first statement of sendTransaction on node n:
\* tx.id = ++transactionCounter + (getId() * 1000000ULL)
AllocateId(n) ==
    /\ Cardinality({r \in issued : r.node = n}) < MaxCreates
    /\ idCounter' = [idCounter EXCEPT ![n] = @ + 1]
    /\ issued' = issued \cup {[node |-> n, counter |-> idCounter[n] + 1,
                                id |-> TxIdOf(n, idCounter[n] + 1)]}
    /\ UNCHANGED <<nodeVars, verifyVars, config, createVars, sideVars, highwayVars>>

NextAlloc == \E n \in NodeIds : AllocateId(n)

SpecAlloc == InitAlloc /\ [][NextAlloc]_vars

(***************************************************************************)
(* The highway scenario (src/unnamed/part_002, src/src/RSUApp.cc): one     *)
(* vehicle, which on every transaction timer checks its nearest RSU and    *)
(* may ask for a handover, and the RSUs, which receive every handover      *)
(* request the vehicle broadcasts.  The TRANSACTION and TX_RESPONSE        *)
(* packets play no part in the handover and are not delivered here.  No    *)
(* module of the repository sends a HANDOVER_RESPONSE; the ones the        *)
(* vehicle receives come from outside, with any content.  No handler of    *)
(* the handover compares times, and the scenario is run at one instant:    *)
(* the self-message an RSU schedules is a pending event that is handled    *)
(* at some later step.                                                     *)
(***************************************************************************)
\* vehicleId = getIndex() of the modelled vehicle
VehicleId == 1
\* std::vector<double> rsuPositions = {2000, 6000, 10000, 14000, 18000}
rsuPositions == <<2000, 6000, 10000, 14000, 18000>>
\* if (minDistance > 1000.0)
CoverageRange == 1000
\* the values of uniform(0.0, 20000.0) the model draws: 1500 m from RSU 0,
\* the nearest; exactly 1000 m from RSU 0; 500 m from RSU 1
PositionSamples == {500, 1000, 5500}

\* std::abs(position - rsuPositions[i]), i counted from 1
Distance(position, i) == Abs(position - rsuPositions[i])
\* the loop of findNearestRSU from index i on, best the nearest so far
RECURSIVE NearestFrom(_, _, _)
NearestFrom(position, i, best) ==
    IF i > Len(rsuPositions) THEN best
    ELSE NearestFrom(position, i + 1,
                     IF Distance(position, i) < Distance(position, best) THEN i ELSE best)
\* a search that takes a distance equal to the coverage range as out of range
findNearestExclusive(position) ==
    IF ~mobility THEN 0
    ELSE LET nearest == NearestFrom(position, 2, 1)
         IN  IF Distance(position, nearest) >= CoverageRange THEN -1 ELSE nearest - 1
\* findNearestRSU(), position the value it draws
findNearestRSU(position) ==
    IF ~mobility THEN 0
    ELSE LET nearest == NearestFrom(position, 2, 1)
         IN  IF Distance(position, nearest) > CoverageRange THEN -1 ELSE nearest - 1

\* uint64_t txId = vehicleId * 1000000 + transactionCounter
VehicleTxId(vehicleId, counter) == vehicleId * IdStride + counter
\* "HANDOVER:<vehicleId> <currentRSU> <newRSU>"
HandoverRequest(newRSU) ==
    [kind |-> "HANDOVER", vehicleId |-> VehicleId, sourceRSU |-> currentRSU,
     targetRSU |-> newRSU]
\* "HANDOVER_RESPONSE:<rsuId> <success>"
HandoverResponses ==
    {[kind |-> "HANDOVER_RESPONSE", rsuId |-> r, success |-> ok] :
        r \in RsuIds \cup {-1}, ok \in BOOLEAN}
Handover(state, target, out) == [inHandover |-> state, targetRSU |-> target, out |-> out]

\* initiateHandover(newRSU): the handover fields after it and the packets it
\* broadcasts
initiateHandover(newRSU) ==
    IF inHandover THEN Handover(inHandover, targetRSU, << >>)
    ELSE Handover(TRUE, newRSU, <<HandoverRequest(newRSU)>>)
\* a range check that asks for a handover whenever the nearest RSU is not
\* the current one
checkRSURangeNoGuard(nearestRSU) ==
    IF nearestRSU # currentRSU
    THEN Handover(TRUE, nearestRSU, <<HandoverRequest(nearestRSU)>>)
    ELSE Handover(inHandover, targetRSU, << >>)
\* checkRSURange(), nearestRSU what findNearestRSU() returned
checkRSURange(nearestRSU) ==
    IF nearestRSU # currentRSU /\ ~inHandover
    THEN initiateHandover(nearestRSU)
    ELSE Handover(inHandover, targetRSU, << >>)

\* what the highway handlers leave alone of the CoCoChainApp node
chainVars == <<pendingTransactions, consensusVotes, confirmedTransactions,
               transactionStartTimes, transactionCounter, totalMessagesReceived,
               counterVars, throughputVars, history>>

\* handleMessageWhenUp(sendTimer) of the vehicle: sendTransaction(), with
\* position the value findNearestRSU() draws.  The handover request is
\* broadcast to port 8888 and queued for every RSU.
VehicleSendAt(position) ==
    LET nearestRSU == findNearestRSU(position)
        h == checkRSURange(nearestRSU)
        txId == VehicleTxId(VehicleId, vehicleCounter + 1)
        tx == [kind |-> "TRANSACTION", id |-> txId, originator |-> VehicleId,
               timestamp |-> now \div (1000 * TicksPerUs), targetRSU |-> currentRSU]
    IN  /\ vehicleCounter < MaxVehicleSends
        /\ inHandover' = h.inHandover
        /\ targetRSU' = h.targetRSU
        /\ vehicleCounter' = vehicleCounter + 1
        /\ vehiclePending' = MapPut(vehiclePending, txId, now)
        /\ handoverQueue' = [r \in RsuIds |-> handoverQueue[r] \o h.out]
        /\ txQueue' = [r \in RsuIds |-> Append(txQueue[r], tx)]
        /\ sent' = h.out \o <<tx>>
        /\ emitted' = IF h.out # << >> THEN <<Signal("handover", 1, 1)>> ELSE << >>
        /\ log' = "transaction_sent"
        /\ lastEvent' = "sendTimer"
        /\ UNCHANGED <<mobility, currentRSU, rsuContactTimes, rsuVars, lastOutcome,
                       activeTransactions, throughputCounter, usePBFT,
                       now, chainVars, config, verifyVars, idVars, createVars, sideVars>>
VehicleSend == \E position \in PositionSamples : VehicleSendAt(position)

\* the test completeHandover returns on, negated, without the comparison of
\* the RSU id
HandoverMatchesAnyTarget(rsuId) == inHandover
\* if (!inHandover || rsuId != targetRSU) return, negated
HandoverMatches(rsuId) == inHandover /\ rsuId = targetRSU

\* a completion that moves the vehicle to the target whatever the outcome
completeHandoverAlwaysMoves(rsuId, success) ==
    IF ~HandoverMatches(rsuId)
    THEN /\ log' = "none"
         /\ UNCHANGED <<currentRSU, targetRSU, inHandover, rsuContactTimes>>
    ELSE /\ currentRSU' = targetRSU
         /\ rsuContactTimes' = MapPut(rsuContactTimes, targetRSU, now)
         /\ log' = "handover_completed"
         /\ inHandover' = FALSE
         /\ targetRSU' = -1
\* completeHandover(rsuId, success)
completeHandover(rsuId, success) ==
    IF ~HandoverMatches(rsuId)
    THEN /\ log' = "none"
         /\ UNCHANGED <<currentRSU, targetRSU, inHandover, rsuContactTimes>>
    ELSE /\ IF success
            THEN /\ currentRSU' = targetRSU
                 /\ rsuContactTimes' = MapPut(rsuContactTimes, targetRSU, now)
                 /\ log' = "handover_completed"
            ELSE /\ log' = "handover_failed"
                 /\ UNCHANGED <<currentRSU, rsuContactTimes>>
         /\ inHandover' = FALSE
         /\ targetRSU' = -1

\* socketDataArrived of the vehicle on the "HANDOVER_RESPONSE:" packet p
ReceiveHandoverResponse(p) ==
    /\ completeHandover(p.rsuId, p.success)
    /\ sent' = << >>
    /\ emitted' = << >>
    /\ lastEvent' = "HANDOVER_RESPONSE"
    /\ UNCHANGED <<mobility, vehicleCounter, vehiclePending, rsuVars, handoverQueue,
                   lastOutcome, transactionVars, now, chainVars, config, verifyVars,
                   idVars, createVars, sideVars>>
VehicleReceive == \E p \in HandoverResponses : ReceiveHandoverResponse(p)

\* the values of uniform(0.002, 0.008) the model draws, in milliseconds
AuthLatencySamples == {2, 5}
\* socketDataArrived of RSU r on the "HANDOVER:" packet at the head of its
\* queue: processHandoverRequest, with inRange what isVehicleInRange draws
\* when it is called and authLatency the delay drawn when the check passes
RsuReceive(r, inRange, authLatency) ==
    /\ handoverQueue[r] # << >>
    /\ LET context == Head(handoverQueue[r])
           ok == context.targetRSU = r /\ inRange
       IN  /\ handoverQueue' = [handoverQueue EXCEPT ![r] = Tail(@)]
           /\ totalHandovers' = [totalHandovers EXCEPT ![r] = @ + 1]
           /\ successfulHandovers' =
                  [successfulHandovers EXCEPT ![r] = IF ok THEN @ + 1 ELSE @]
           /\ timers' = [timers EXCEPT ![r] = IF ok THEN @ + 1 ELSE @]
           /\ emitted' = IF ok
                         THEN <<Signal("authLatency", authLatency, 1000),
                                Signal("handoverSuccess", 1, 1)>>
                         ELSE <<Signal("handoverSuccess", 0, 1)>>
           /\ log' = IF ok THEN "rsu_completed_handover" ELSE "rsu_failed_handover"
           /\ lastOutcome' = [lastOutcome EXCEPT ![r] = IF ok THEN "passed" ELSE "failed"]
           /\ lastEvent' = "HANDOVER"
    /\ sent' = << >>
    /\ UNCHANGED <<vehicleVars, transactionVars, now, chainVars, config, verifyVars,
                   idVars, createVars, sideVars>>
\* the draws of isVehicleInRange: it is called only for the RSU the request
\* names
RangeDraws(r) ==
    IF handoverQueue[r] # << >> /\ Head(handoverQueue[r]).targetRSU = r
    THEN BOOLEAN ELSE {FALSE}
\* the delay is drawn only when the range check passed
LatencyDraws(inRange) ==
    IF inRange THEN AuthLatencySamples ELSE {CHOOSE d \in AuthLatencySamples : TRUE}
RsuHandover ==
    \E r \in RsuIds : \E inRange \in RangeDraws(r) :
        \E authLatency \in LatencyDraws(inRange) : RsuReceive(r, inRange, authLatency)

\* handleMessageWhenUp of RSU r on a handover_complete self-message: the
\* message is deleted
RsuTimer(r) ==
    /\ timers[r] > 0
    /\ timers' = [timers EXCEPT ![r] = @ - 1]
    /\ sent' = << >>
    /\ emitted' = << >>
    /\ log' = "none"
    /\ lastEvent' = "handover_complete"
    /\ UNCHANGED <<vehicleVars, totalHandovers, successfulHandovers, handoverQueue,
                   lastOutcome, transactionVars, now, chainVars, config, verifyVars,
                   idVars, createVars, sideVars>>
RsuSelfMessage == \E r \in RsuIds : RsuTimer(r)

\* the vehicle and the RSUs after initialize(): the vehicle has its mobility
\* submodule or not, and currentRSU = findNearestRSU()
InitHighway ==
    /\ bftThreshold = 25
    /\ semanticVerification = TRUE
    /\ cosineSimilarityThreshold = 2
    /\ absTruncates = FALSE
    /\ InitNode
    /\ NoCreation
    /\ NoProbe
    /\ NoNetwork
    /\ InitIds
    /\ vTx = NoTx
    /\ vRef = NoTx
    /\ vCalled = FALSE
    /\ vResult = FALSE
    /\ mobility \in BOOLEAN
    /\ usePBFT \in BOOLEAN
    /\ \E position \in PositionSamples : currentRSU = findNearestRSU(position)
    /\ targetRSU = -1
    /\ inHandover = FALSE
    /\ rsuContactTimes = EmptyMap
    /\ vehicleCounter = 0
    /\ vehiclePending = EmptyMap
    /\ InitRsus

NextHighway ==
    \/ VehicleSend
    \/ VehicleReceive
    \/ RsuHandover
    \/ RsuSelfMessage

SpecHighway == InitHighway /\ [][NextHighway]_vars

(***************************************************************************)
(* The transactions of the highway scenario: the vehicle broadcasts every  *)
(* transaction to port 8888, every RSU receives it and runs its consensus  *)
(* on it.  No module of the repository sends a TX_RESPONSE; the ones the   *)
(* vehicle receives come from outside, with any content.  The handover     *)
(* requests the vehicle broadcasts on the way stay queued here; their      *)
(* delivery is followed under SpecHighway.                                 *)
(***************************************************************************)
\* the values of uniform(0.001, 0.005) and of uniform(0.010, 0.050) the
\* model draws, in milliseconds
CoCoChainLatencySamples == {1, 4}
PbftLatencySamples == {10, 40}
ConsensusLatencySamples == IF usePBFT THEN PbftLatencySamples ELSE CoCoChainLatencySamples

\* socketDataArrived of RSU r on the "TRANSACTION:" packet at the head of its
\* queue: processTransaction, with consensusLatency the delay drawn by
\* runPBFTConsensus or runCoCoChainConsensus.  The interval since
\* lastThroughputUpdate stays below 1.0 s in a run at one instant, and
\* updateThroughput only counts.
RsuProcessTransaction(r, consensusLatency) ==
    /\ txQueue[r] # << >>
    /\ LET tx == Head(txQueue[r])
           startTime == now
       IN  /\ txQueue' = [txQueue EXCEPT ![r] = Tail(@)]
           /\ activeTransactions' =
                  [activeTransactions EXCEPT
                      ![r] = MapPut(@, tx.id, [verified |-> TRUE, startTime |-> startTime])]
           /\ emitted' = <<Signal("authLatency",
                                  (now - startTime) * 1000 + consensusLatency, 1000)>>
    /\ throughputCounter' = [throughputCounter EXCEPT ![r] = @ + 1]
    /\ sent' = << >>
    /\ log' = IF usePBFT THEN "rsu_completed_pbft" ELSE "rsu_completed_cocochain"
    /\ lastEvent' = "TRANSACTION"
    /\ UNCHANGED <<vehicleVars, rsuVars, handoverQueue, lastOutcome, usePBFT, now,
                   chainVars, config, verifyVars, idVars, createVars, sideVars>>
RsuTransaction ==
    \E r \in RsuIds : \E consensusLatency \in ConsensusLatencySamples :
        RsuProcessTransaction(r, consensusLatency)

\* "TX_RESPONSE:<txId> <success> <latency>": for the ids of the vehicle and
\* for an id it never formed; the latency field is parsed and never read
TxResponses ==
    {[kind |-> "TX_RESPONSE", txId |-> i, success |-> ok] :
        i \in {VehicleTxId(VehicleId, c) : c \in 1..(MaxVehicleSends + 1)},
        ok \in BOOLEAN}

\* socketDataArrived of the vehicle on the "TX_RESPONSE:" packet p:
\* processTransactionResponse(txId, success, latency)
ReceiveTxResponse(p) ==
    /\ IF p.txId \in DOMAIN vehiclePending
       THEN /\ emitted' = <<Signal("authLatency", now - vehiclePending[p.txId], 1)>>
            /\ vehiclePending' = MapErase(vehiclePending, p.txId)
            /\ log' = "received_response"
       ELSE /\ emitted' = << >>
            /\ log' = "none"
            /\ UNCHANGED vehiclePending
    /\ sent' = << >>
    /\ lastEvent' = "TX_RESPONSE"
    /\ UNCHANGED <<mobility, currentRSU, targetRSU, inHandover, rsuContactTimes,
                   vehicleCounter, rsuVars, handoverQueue, lastOutcome, transactionVars,
                   now, chainVars, config, verifyVars, idVars, createVars, sideVars>>
VehicleTxResponse == \E p \in TxResponses : ReceiveTxResponse(p)

NextHighwayTx ==
    \/ VehicleSend
    \/ RsuTransaction
    \/ VehicleTxResponse

SpecHighwayTx == InitHighway /\ [][NextHighwayTx]_vars

(***************************************************************************)
(* findNearestRSU as a function of the position it draws, on a vehicle     *)
(* with or without a mobility submodule.  Positions are whole metres.      *)
(***************************************************************************)
\* the values of uniform(0.0, 20000.0) the function is applied to: every
\* half kilometre of the highway, and the metre before and after a point
\* exactly 1000 m from an RSU (3000, 19000) and a point halfway between two
\* RSUs (4000)
ProbePositions ==
    {500 * k : k \in 0..40}
    \cup {2999, 3001, 3999, 4001, 18999, 19001}

\* the vehicle after its constructor, before currentRSU is first set
InitProbe ==
    /\ bftThreshold = 25
    /\ semanticVerification = TRUE
    /\ cosineSimilarityThreshold = 2
    /\ absTruncates = FALSE
    /\ InitNode
    /\ NoCreation
    /\ InitIds
    /\ vTx = NoTx
    /\ vRef = NoTx
    /\ vCalled = FALSE
    /\ vResult = FALSE
    /\ mobility \in BOOLEAN
    /\ usePBFT = FALSE
    /\ InitVehicle
    /\ InitRsus
    /\ probePosition \in ProbePositions
    /\ probeCalled = FALSE
    /\ probeNearest = 0
    /\ NoNetwork

\* int nearestRSU = findNearestRSU()
CallNearest ==
    /\ ~probeCalled
    /\ probeCalled' = TRUE
    /\ probeNearest' = findNearestRSU(probePosition)
    /\ UNCHANGED <<nodeVars, verifyVars, config, idVars, createVars, probePosition,
                   peers, channel, voted, highwayVars>>

SpecNearest == InitProbe /\ [][CallNearest]_vars

(***************************************************************************)
(* Properties.                                                             *)
(***************************************************************************)
HasVoted(id, sender) ==
    \E i \in 1..Len(VotesOf(consensusVotes, id)) :
        VotesOf(consensusVotes, id)[i].senderId = sender
AcceptCount(votes) == Len(SelectSeq(votes, LAMBDA v : v.vote))
NoLatency(signals) == \A i \in 1..Len(signals) : signals[i].signal # "endToEndLatency"
Decided(id) == rejections[id] + (IF id \in confirmedTransactions THEN 1 ELSE 0)

\* C1: a transaction id is in confirmedTransactions only if accept votes from
\* at least requiredVotes distinct sender ids have been delivered for it.
C1_FinalizedOnlyWithDistinctQuorum ==
    \A id \in confirmedTransactions : Cardinality(acceptSeen[id]) >= RequiredVotes

\* C2: delivering a vote whose (transactionId, senderId) pair is already in
\* the vote list leaves the total and the accept count of that list as they
\* were, and so takes no decision.
C2_DuplicateVoteNotCounted ==
    [][\A p \in ConsensusPackets :
          (/\ p.type = "VOTE"
           /\ HasVoted(p.transactionId, p.senderId)
           /\ ReceiveConsensusPacket(p))
          => /\ Len(VotesOf(consensusVotes', p.transactionId))
                  = Len(VotesOf(consensusVotes, p.transactionId))
             /\ AcceptCount(VotesOf(consensusVotes', p.transactionId))
                  = AcceptCount(VotesOf(consensusVotes, p.transactionId))
             /\ confirmedTransactions' = confirmedTransactions
             /\ rejections' = rejections]_vars

\* C3: every transaction id gets at most one terminal decision at the node:
\* it is not rejected and finalized (in either order) and not rejected twice.
C3_AtMostOneTerminalDecision == \A id \in TxIds : Decided(id) <= 1

\* C4: a vote delivered for an id that is already in confirmedTransactions
\* changes none of confirmedTransactions, pendingTransactions, consensusVotes
\* and transactionStartTimes, and emits no latency sample.
C4_VoteAfterFinalizeIsNoOp ==
    [][\A p \in ConsensusPackets :
          (/\ p.type = "VOTE"
           /\ p.transactionId \in confirmedTransactions
           /\ ReceiveConsensusPacket(p))
          => /\ UNCHANGED <<confirmedTransactions, pendingTransactions,
                            consensusVotes, transactionStartTimes>>
             /\ NoLatency(emitted')]_vars

\* C5: processing a vote takes no decision while the vote list, the new vote
\* included, is shorter than requiredVotes; once it has requiredVotes entries
\* the id is finalized if at least requiredVotes of them accept, and rejected
\* (dropped from pendingTransactions and consensusVotes) otherwise.
C5_DecisionAtThreshold ==
    [][\* a delivery to processConsensusMessage counts a message and sends nothing
       (totalMessagesReceived' = totalMessagesReceived + 1 /\ sent' = << >>)
       => \A p \in ConsensusPackets :
            (p.type = "VOTE" /\ ReceiveConsensusPacket(p))
            => LET id == p.transactionId
                   total == Len(VotesOf(consensusVotes, id)) + 1
                   accepts == AcceptCount(VotesOf(consensusVotes, id))
                                  + (IF p.vote THEN 1 ELSE 0)
               IN  /\ (total < RequiredVotes
                       => (/\ confirmedTransactions' = confirmedTransactions
                           /\ rejections' = rejections
                           /\ pendingTransactions' = pendingTransactions
                           /\ Len(VotesOf(consensusVotes', id)) = total))
                   /\ ((total >= RequiredVotes /\ accepts >= RequiredVotes)
                       => (/\ id \in confirmedTransactions'
                           /\ rejections' = rejections))
                   /\ ((total >= RequiredVotes /\ accepts < RequiredVotes)
                       => (/\ rejections'[id] = rejections[id] + 1
                           /\ confirmedTransactions' = confirmedTransactions
                           /\ id \notin DOMAIN pendingTransactions'
                           /\ id \notin DOMAIN consensusVotes'))]_vars
\* a vote list reached requiredVotes = 2 entries without two accepts
C5_Witness == log = "rejected_by_consensus" /\ RequiredVotes = 2

\* C6: a received transaction that is neither the node's own nor stale gets
\* exactly one broadcast vote, accept when its verification passed and reject
\* when it failed, and is stored in pendingTransactions under its id.
C6_OneVotePerFreshTransaction ==
    (log \in {"rejected_malformed", "vote_positive", "vote_negative"})
    => /\ Len(sent) = 1
       /\ sent[1].kind = "CONSENSUS" /\ sent[1].type = "VOTE"
       /\ sent[1].vote = (log # "rejected_malformed")
       /\ sent[1].transactionId \in DOMAIN pendingTransactions

\* C7: a received transaction of another node older than maxTransactionAge is
\* dropped: no packet is sent, pendingTransactions, consensusVotes and the
\* three verification counters keep their values; one whose age equals
\* maxTransactionAge is not dropped as stale.
C7_StaleTransactionDropped ==
    [][\* a delivery counts a message
       (totalMessagesReceived' = totalMessagesReceived + 1)
       => \A p \in TransactionPackets :
            p.originator # SelfId
            => LET age == now - p.timestamp * TicksPerUs
               IN  \/ /\ (age > maxTransactionAge
                           => (/\ log' = "dropped_old"
                               /\ sent' = << >>
                               /\ UNCHANGED <<pendingTransactions, consensusVotes,
                                               counterVars>>))
                      /\ (age = maxTransactionAge => log' # "dropped_old")
                   \* or the step is not the delivery of p
                   \/ ~ReceiveTransactionPacket(p)]_vars
\* a stale transaction has just been dropped
C7_Witness == log = "dropped_old" /\ sent = << >> /\ totalMessagesReceived > 0

DigestMatches(tx) == computeSemanticDigest(tx.conceptVector) = tx.semanticDigest
\* population variance above 2.0, from its definition E[x^2] - E[x]^2
VarianceExceeds(data) ==
    LET n == Len(data)
    IN  n * Dot(data, data) - SumSeq(data) * SumSeq(data) > VarianceLimit * n * n
TopConcept(cv) == cv.isTopK \/ \E i \in DOMAIN cv.data : Abs(cv.data[i]) > TopKLimitTenths
SimilarityLow == SimilarityBelow(vTx.conceptVector.data, vRef.data, cosineSimilarityThreshold)

\* C8 (as stated): with semantic verification switched off, verify returns false.
C8_DisabledReturnsFalse == (vCalled /\ ~semanticVerification) => ~vResult
\* C8 (amended): with semantic verification switched off, verify returns true
\* for every transaction.
C8_DisabledReturnsTrue == (vCalled /\ ~semanticVerification) => vResult
\* verification is off and the transaction's digest does not match its vector
C8_Witness == vCalled /\ ~semanticVerification /\ ~DigestMatches(vTx)

\* C9: with verification on, a transaction whose digest matches, whose
\* variance is at most 2.0 and whose similarity to the reference is at least
\* the threshold is accepted.
C9_NoFalseNegative ==
    (/\ vCalled /\ semanticVerification
     /\ DigestMatches(vTx)
     /\ ~VarianceExceeds(vTx.conceptVector.data)
     /\ ~SimilarityLow)
    => vResult
\* a top-k vector of variance exactly 2.0 has been accepted
C9_Witness ==
    /\ vCalled /\ semanticVerification /\ vResult
    /\ vTx.conceptVector.data = BoundaryData
    /\ ~SimilarityLow

\* C10: with verification on, verify returns false when the digest differs,
\* when the variance exceeds 2.0, or when a top concept (flag set or some
\* |coordinate| > 0.8) is less similar to the reference than the threshold;
\* a vector that is no top concept is never rejected for its similarity.
C10_RejectsEachDefect ==
    (vCalled /\ semanticVerification)
    => /\ ((\/ ~DigestMatches(vTx)
            \/ VarianceExceeds(vTx.conceptVector.data)
            \/ TopConcept(vTx.conceptVector) /\ SimilarityLow)
           => ~vResult)
       /\ ((/\ ~TopConcept(vTx.conceptVector)
            /\ DigestMatches(vTx)
            /\ ~VarianceExceeds(vTx.conceptVector.data))
           => vResult)

LatencySamples(signals) == SelectSeq(signals, LAMBDA s : s.signal = "endToEndLatency")

\* C11: a latency sample is emitted only by the delivery of a vote that
\* finalizes, at this node, a transaction this node created (an id it formed
\* and recorded a start time for); the sample is the only one of that step
\* and its value is the time of the step minus the recorded start time.  An id
\* never leaves confirmedTransactions, so it gets at most one sample; a start
\* time is recorded when the node creates the id, with the time of creation,
\* and is never altered.
C11_LatencyOnlyAtOriginatorFinalize ==
    [][/\ confirmedTransactions \subseteq confirmedTransactions'
       /\ \A id \in DOMAIN transactionStartTimes' :
            IF id \in DOMAIN transactionStartTimes
            THEN transactionStartTimes'[id] = transactionStartTimes[id]
            ELSE /\ transactionCounter' = transactionCounter + 1
                 /\ id = TxIdOf(SelfId, transactionCounter')
                 /\ transactionStartTimes'[id] = now
       \* a handler ran (time stands still while it runs)
       /\ (now' = now)
          => \/ NoLatency(emitted')
             \/ \E p \in ConsensusPackets :
                  /\ p.type = "VOTE"
                  /\ ReceiveConsensusPacket(p)
                  /\ p.transactionId \div IdStride = SelfId
                  /\ p.transactionId \in DOMAIN transactionStartTimes
                  /\ p.transactionId \notin confirmedTransactions
                  /\ p.transactionId \in confirmedTransactions'
                  /\ LatencySamples(emitted')
                       = <<Signal("endToEndLatency",
                                  now - transactionStartTimes[p.transactionId], 1)>>]_vars
\* the node's own transaction was finalized some time after its creation
C11_Witness ==
    /\ log = "confirmed_with_latency"
    /\ TxIdOf(SelfId, 1) \in confirmedTransactions
    /\ \E i \in 1..Len(emitted) :
          emitted[i].signal = "endToEndLatency" /\ emitted[i].num > 0
    /\ now > emitted[2].num

\* C12: the step that finalizes or rejects a transaction id leaves the id
\* without an entry in pendingTransactions, in consensusVotes and in
\* transactionStartTimes.
C12_TrackingClearedOnTerminal ==
    [][\A id \in TxIds :
          (\/ rejections'[id] > rejections[id]
           \/ id \in confirmedTransactions' \ confirmedTransactions)
          => /\ id \notin DOMAIN pendingTransactions'
             /\ id \notin DOMAIN consensusVotes'
             /\ id \notin DOMAIN transactionStartTimes']_vars

\* C13: the delivery of a vote for a transaction id the node has rejected
\* by consensus emits no latency sample.
C13_NoLatencyAfterReject ==
    [][\A p \in ConsensusPackets :
          (/\ p.type = "VOTE"
           /\ rejections[p.transactionId] > 0
           /\ ReceiveConsensusPacket(p))
          => NoLatency(emitted')]_vars

\* C14: two transactions created under distinct (node, counter) pairs never
\* carry the same id.
C14_IdsNeverCollide ==
    \A a \in issued : \A b \in issued :
        (a.id = b.id) => (a.node = b.node /\ a.counter = b.counter)

NoHandoverRequest(packets) == \A i \in 1..Len(packets) : packets[i].kind # "HANDOVER"
\* no handover request is queued for an RSU and no RSU has a self-message
\* scheduled
NothingInFlight ==
    \A r \in RsuIds : handoverQueue[r] = << >> /\ timers[r] = 0

\* C15: while inHandover is true, a transaction timer of the vehicle sends
\* no handover request and leaves targetRSU and inHandover as they were,
\* whatever findNearestRSU returns; initiateHandover itself does the same
\* for every RSU it is called with.
C15_OneHandoverInFlight ==
    [][inHandover
       => /\ \A newRSU \in RsuIds \cup {-1} :
                initiateHandover(newRSU) = Handover(TRUE, targetRSU, << >>)
          /\ \A position \in PositionSamples :
                VehicleSendAt(position)
                => /\ targetRSU' = targetRSU
                   /\ inHandover'
                   /\ handoverQueue' = handoverQueue
                   /\ NoHandoverRequest(sent')]_vars
\* the second transaction timer ran during a handover and sent no request
C15_Witness ==
    /\ lastEvent = "sendTimer"
    /\ vehicleCounter = 2
    /\ inHandover /\ targetRSU = 1
    /\ NoHandoverRequest(sent)

\* C16: a HANDOVER_RESPONSE delivered while no handover is in flight, or
\* naming another RSU than targetRSU, leaves currentRSU, targetRSU,
\* inHandover and rsuContactTimes as they were, whatever its success flag.
C16_MismatchedResponseIgnored ==
    [][\A p \in HandoverResponses :
          ((~inHandover \/ p.rsuId # targetRSU) /\ ReceiveHandoverResponse(p))
          => UNCHANGED <<currentRSU, targetRSU, inHandover, rsuContactTimes>>]_vars
\* a response was ignored during a handover
C16_Witness ==
    /\ lastEvent = "HANDOVER_RESPONSE"
    /\ log = "none"
    /\ inHandover /\ targetRSU = 1

\* C17: a HANDOVER_RESPONSE naming the targetRSU of the handover in flight
\* clears the handover (inHandover false, targetRSU -1); currentRSU becomes
\* the target when it reports success and keeps its value when it reports
\* failure.
C17_MatchingResponseCompletes ==
    [][\A p \in HandoverResponses :
          (inHandover /\ p.rsuId = targetRSU /\ ReceiveHandoverResponse(p))
          => /\ ~inHandover'
             /\ targetRSU' = -1
             /\ currentRSU' = IF p.success THEN targetRSU ELSE currentRSU]_vars
\* a failed handover was cleared and the vehicle stayed on RSU 0
C17_Witness ==
    /\ log = "handover_failed"
    /\ ~inHandover /\ targetRSU = -1 /\ currentRSU = 0

\* C18: a transaction timer on which findNearestRSU returns -1 (no RSU within
\* the coverage range) while no handover is in flight sends no handover
\* request and leaves inHandover false.
C18_NoHandoverOutOfRange ==
    [][~inHandover
       => \A position \in PositionSamples :
            (findNearestRSU(position) = -1 /\ VehicleSendAt(position))
            => /\ ~inHandover'
               /\ handoverQueue' = handoverQueue
               /\ NoHandoverRequest(sent')]_vars

\* the vehicle is on RSU a and waits for the outcome of its request to move
\* to RSU b
HandoverPending(a, b) == inHandover /\ currentRSU = a /\ targetRSU = b

\* C19: a handover from RSU a to RSU b that b has granted (its range check
\* passed for the request) does not stay pending once b has handled the
\* self-message it scheduled for the authentication delay and nothing is
\* left in flight: by then the vehicle is on b and no longer in handover.
C19_AcceptedHandoverCompletes ==
    \A a \in RsuIds : \A b \in RsuIds \ {a} :
        (lastOutcome[b] = "passed" /\ NothingInFlight) => ~HandoverPending(a, b)

\* C20: a handover from RSU a to RSU b that b has refused (its range check
\* failed for the request) does not stay pending once nothing is left in
\* flight: by then the failure has reached the vehicle and cleared it.
C20_RefusedHandoverCleared ==
    \A a \in RsuIds : \A b \in RsuIds \ {a} :
        (lastOutcome[b] = "failed" /\ NothingInFlight) => ~HandoverPending(a, b)

\* the votes held for id are accept votes of distinct senders, none of them
\* sender
CleanVotes(id, sender) ==
    LET list == VotesOf(consensusVotes, id)
    IN  \A i \in 1..Len(list) :
            /\ list[i].vote
            /\ list[i].senderId # sender
            /\ \A j \in 1..Len(list) : list[j].senderId = list[i].senderId => j = i

\* C21: when the node has created a transaction and the accept votes of
\* requiredVotes distinct nodes (requiredVotes at least 1, no other vote among
\* them) are delivered for it, the delivery of the last of them finalizes the
\* transaction and emits exactly one latency sample, the time of that
\* delivery minus the time of creation; a vote delivered after that emits no
\* further sample.
C21_CleanQuorumFinalizesOnce ==
    [][(totalMessagesReceived' = totalMessagesReceived + 1 /\ sent' = << >>)
       => \A p \in ConsensusPackets :
            (/\ p.type = "VOTE"
             /\ p.transactionId \div IdStride = SelfId
             /\ ReceiveConsensusPacket(p))
            => LET id == p.transactionId
               IN  /\ (/\ p.vote
                       /\ RequiredVotes >= 1
                       /\ id \in DOMAIN transactionStartTimes
                       /\ id \notin confirmedTransactions
                       /\ CleanVotes(id, p.senderId)
                       /\ Len(VotesOf(consensusVotes, id)) + 1 = RequiredVotes)
                      => /\ id \in confirmedTransactions'
                         /\ id \notin DOMAIN transactionStartTimes'
                         /\ LatencySamples(emitted')
                              = <<Signal("endToEndLatency",
                                         now - transactionStartTimes[id], 1)>>
                   /\ (id \in confirmedTransactions
                       => /\ NoLatency(emitted')
                          /\ id \in confirmedTransactions')]_vars
\* the accept votes of two distinct nodes finalized the node's transaction
\* one tick after its creation
C21_Witness ==
    /\ RequiredVotes = 2
    /\ log = "confirmed_with_latency"
    /\ acceptSeen[TxIdOf(SelfId, 1)] = NodeIds
    /\ rejections[TxIdOf(SelfId, 1)] = 0
    /\ LatencySamples(emitted) = <<Signal("endToEndLatency", 1, 1)>>

\* C22: a transaction of the vehicle that every RSU has received and run its
\* consensus on is no longer in the vehicle's pendingTransactions once no
\* transaction is left in flight: the confirmation has reached the vehicle
\* and removed it.
C22_ProcessedTransactionAnswered ==
    (\A r \in RsuIds : txQueue[r] = << >>)
    => \A id \in DOMAIN vehiclePending :
          \E r \in RsuIds : id \notin DOMAIN activeTransactions[r]

\* C23: a call of processCocoChainConsensus that rejects a transaction whose
\* vector is corrupted adds exactly 1 to totalMalformedDetected, and a call
\* that accepts a transaction leaves the counter as it was.
C23_MalformedCountedOnReject ==
    vCalled
    => /\ ((vTx.conceptVector.isCorrupted /\ ~vResult) => totalMalformedDetected = 1)
       /\ (vResult => totalMalformedDetected = 0)

\* C24: totalFalsePositives counts the uncorrupted transactions verification
\* rejected: the delivery of a transaction that is rejected as malformed (its
\* vector, generated by the receiver, is never corrupted) adds exactly 1 to
\* the counter, and every other step leaves the counter as it was.
C24_FalsePositivesCountRejections ==
    [][totalFalsePositives' =
          totalFalsePositives
            + (IF /\ totalMessagesReceived' = totalMessagesReceived + 1
                  /\ log' = "rejected_malformed"
               THEN 1 ELSE 0)]_vars

\* the false-positive rate falsePositives / (validCount + falsePositives)
\* reported under name, 0 when the denominator is 0
FalsePositiveRate(name, falsePositives, validCount) ==
    IF validCount + falsePositives = 0
    THEN Signal(name, 0, 1)
    ELSE Signal(name, falsePositives, validCount + falsePositives)
Named(signals, name) == SelectSeq(signals, LAMBDA x : x.signal = name)

\* C25: every step that updates the false-positive rate (it changes
\* totalFalsePositives or totalValidTransactions) reports exactly one
\* falsePositiveRate sample, and finish() records exactly one "Final FPR";
\* each is falsePositives / (validCount + falsePositives) for the counters
\* after the step, and 0 when that denominator is 0.
C25_RateReportedFromCounters ==
    [][/\ (\/ totalFalsePositives' # totalFalsePositives
           \/ totalValidTransactions' # totalValidTransactions)
          => Named(emitted', "falsePositiveRate")
               = <<FalsePositiveRate("falsePositiveRate", totalFalsePositives',
                                     totalValidTransactions')>>
       /\ (log' = "finished" /\ log # "finished")
          => Named(emitted', "Final FPR")
               = <<FalsePositiveRate("Final FPR", totalFalsePositives',
                                     totalValidTransactions')>>]_vars

\* the scalars finish() records whatever the state of the consensus
KnownScalars ==
    {"Total messages received", "Total malformed detected", "Total false positives",
     "Total valid transactions", "Confirmed transactions", "Final FPR"}

\* C29: when the simulation ends with transactions still in
\* pendingTransactions, finish() records a further scalar whose value is the
\* number of those transactions.
C29_UnresolvedCountRecorded ==
    (log = "finished" /\ DOMAIN pendingTransactions # {})
    => \E i \in 1..Len(emitted) :
          /\ emitted[i].signal \notin KnownScalars
          /\ emitted[i].num = Cardinality(DOMAIN pendingTransactions)
          /\ emitted[i].den = 1

\* ceil(estimatedNetworkSize * bftThreshold)
CeilingVotes == (EstimatedNetworkSize * bftThreshold + BftScale - 1) \div BftScale

\* C26: processConsensusMessage decides with the threshold
\* ceil(estimatedNetworkSize * bftThreshold): the delivery of a vote for an
\* id not yet confirmed finalizes the id exactly when the vote list, the new
\* vote included, holds at least that many votes of which at least that many
\* accept, and rejects it exactly when the list holds at least that many
\* votes and fewer accepts.
C26_ThresholdIsCeiling ==
    [][(totalMessagesReceived' = totalMessagesReceived + 1 /\ sent' = << >>)
       => \A p \in ConsensusPackets :
            (/\ p.type = "VOTE"
             /\ p.transactionId \notin confirmedTransactions
             /\ ReceiveConsensusPacket(p))
            => LET id == p.transactionId
                   total == Len(VotesOf(consensusVotes, id)) + 1
                   accepts == AcceptCount(VotesOf(consensusVotes, id))
                                  + (IF p.vote THEN 1 ELSE 0)
               IN  /\ (id \in confirmedTransactions')
                        <=> (total >= CeilingVotes /\ accepts >= CeilingVotes)
                   /\ (rejections'[id] > rejections[id])
                        <=> (total >= CeilingVotes /\ accepts < CeilingVotes)]_vars

\* the node holds id as a received transaction or has created it
Tracked(id) ==
    \/ id \in DOMAIN pendingTransactions
    \/ id \div IdStride = SelfId /\ id - SelfId * IdStride <= transactionCounter

\* C27: the delivery of a vote for a transaction id the node is not tracking
\* (not in pendingTransactions, not created by the node) creates no vote
\* list and neither finalizes nor rejects the id.
C27_VoteForUnknownIgnored ==
    [][\A p \in ConsensusPackets :
          (/\ p.type = "VOTE"
           /\ ~Tracked(p.transactionId)
           /\ ReceiveConsensusPacket(p))
          => /\ consensusVotes' = consensusVotes
             /\ confirmedTransactions' = confirmedTransactions
             /\ rejections' = rejections]_vars

\* C28: the delivery of a consensus packet whose text is malformed (fields
\* missing, or a field that is no number) adds no vote to any vote list and
\* neither finalizes nor rejects a transaction.
C28_MalformedConsensusDropped ==
    [][\A fields \in MalformedConsensus :
          ReceiveConsensusText(fields)
          => /\ consensusVotes' = consensusVotes
             /\ confirmedTransactions' = confirmedTransactions
             /\ rejections' = rejections]_vars

\* C30: the vector of a transaction sendTransaction has built has its
\* corrupted flag set if and only if the node is in adversarialNodes; on a
\* node that is not, the vector is the generated one, untouched.
C30_CorruptedIffAdversarial ==
    (createdTx # NoTx)
    => /\ createdTx.conceptVector.isCorrupted <=> (SelfId \in adversarialNodes)
       /\ (SelfId \notin adversarialNodes)
          => createdTx.conceptVector = generateConceptVector(rngDraws.data)
\* an adversarial node built a transaction with its noise alone: the flag is
\* set and the coordinates are half the generated ones
C30_Witness ==
    /\ createdTx # NoTx
    /\ SelfId \in adversarialNodes
    /\ ~rngDraws.extreme.inject /\ ~rngDraws.topk.mark
    /\ createdTx.conceptVector.isCorrupted
    /\ createdTx.conceptVector.data = Vec(4, 2, 1)

\* the least distance from position to an RSU
MinDistance(position) ==
    CHOOSE d \in {Distance(position, i) : i \in 1..Len(rsuPositions)} :
        \A i \in 1..Len(rsuPositions) : d <= Distance(position, i)

\* C31: on a vehicle with a mobility submodule, findNearestRSU returns -1
\* exactly when the least distance from the position to an RSU exceeds the
\* coverage range; otherwise (a distance equal to the range included) it
\* returns the index of an RSU at that least distance, the lowest such index.
C31_NearestWithinCoverage ==
    (probeCalled /\ mobility)
    => LET least == MinDistance(probePosition)
       IN  IF least > CoverageRange
           THEN probeNearest = -1
           ELSE /\ probeNearest \in 0..(Len(rsuPositions) - 1)
                /\ Distance(probePosition, probeNearest + 1) = least
                /\ \A j \in 1..probeNearest : Distance(probePosition, j) > least
\* a position exactly 1000 m from RSU 0 gave RSU 0
C31_Witness ==
    /\ probeCalled /\ mobility
    /\ probePosition = 3000
    /\ MinDistance(probePosition) = CoverageRange
    /\ probeNearest = 0

\* C32: an RSU counts a handover as successful (successfulHandovers
\* incremented, the success signal emitted) only in the step that handles the
\* handover_complete self-message scheduled for the authentication delay,
\* never in the step that receives the request.
C32_SuccessOnlyAtCompletion ==
    [][/\ \A r \in RsuIds :
            successfulHandovers'[r] > successfulHandovers[r]
            => lastEvent' = "handover_complete"
       /\ (lastEvent' = "HANDOVER")
          => \A i \in 1..Len(emitted') :
                ~(emitted'[i].signal = "handoverSuccess" /\ emitted'[i].num = 1)]_vars

\* C33: the delivery of a handover request to an RSU leaves totalHandovers
\* and successfulHandovers of every RSU other than the one the request names
\* as they were, and an RSU that is not the one named emits neither a
\* success nor a failure signal for it.
C33_OnlyTargetCountsHandover ==
    [][\A r \in RsuIds : \A inRange \in BOOLEAN : \A authLatency \in AuthLatencySamples :
          (handoverQueue[r] # << >> /\ RsuReceive(r, inRange, authLatency))
          => LET target == Head(handoverQueue[r]).targetRSU
             IN  /\ \A q \in RsuIds \ {target} :
                        /\ totalHandovers'[q] = totalHandovers[q]
                        /\ successfulHandovers'[q] = successfulHandovers[q]
                 /\ (r # target => Named(emitted', "handoverSuccess") = << >>)]_vars

\* C38: in every state of the vehicle, inHandover is true exactly when
\* targetRSU names an RSU (targetRSU is not -1).
C38_HandoverFlagMatchesTarget == inHandover <=> (targetRSU # -1)

\* the vote list of id with the vote p pushed on it
ListWith(p) == Append(VotesOf(consensusVotes, p.transactionId), p)

\* C34: after processConsensusMessage has run, every vote list the node holds
\* is shorter than requiredVotes, and the delivery of a vote finalizes its
\* transaction only when the list, that vote included, holds exactly
\* requiredVotes votes and all of them accept.
C34_ListsShortAndUnanimous ==
    [][/\ \A id \in DOMAIN consensusVotes' :
            Len(consensusVotes'[id]) < RequiredVotes
       /\ \A p \in ConsensusPackets :
            (/\ p.type = "VOTE"
             /\ ReceiveConsensusPacket(p)
             /\ p.transactionId \in confirmedTransactions' \ confirmedTransactions)
            => /\ Len(ListWith(p)) = RequiredVotes
               /\ AcceptCount(ListWith(p)) = Len(ListWith(p))]_vars

\* C36: under every bftThreshold of the configuration, the requiredVotes a
\* delivered vote is decided with is at least 1, and the delivery finalizes
\* the transaction only when the vote list, that vote included, holds an
\* accept vote.
C36_NoFinalizeWithoutAccept ==
    [][\A p \in ConsensusPackets :
          (p.type = "VOTE" /\ ReceiveConsensusPacket(p))
          => /\ RequiredVotes >= 1
             /\ (p.transactionId \in confirmedTransactions' \ confirmedTransactions)
                => AcceptCount(ListWith(p)) >= 1]_vars

\* C37: no transaction id is at once in confirmedTransactions and in
\* pendingTransactions.
C37_ConfirmedNotPending ==
    confirmedTransactions \cap DOMAIN pendingTransactions = {}

\* C39: the delivery of a transaction whose originator is the node itself
\* leaves pendingTransactions, consensusVotes and the three verification
\* counters as they were and sends nothing, so the node casts no vote on a
\* transaction of its own.
C39_OwnTransactionSkipped ==
    [][/\ (totalMessagesReceived' = totalMessagesReceived + 1)
          => \A p \in TransactionPackets :
                (p.originator = SelfId /\ ReceiveTransactionPacket(p))
                => /\ UNCHANGED <<pendingTransactions, consensusVotes, counterVars>>
                   /\ sent' = << >>
                   /\ log' = "none"
       \* no handler sends a vote on a transaction of the node's own
       /\ \A i \in 1..Len(sent') :
            sent'[i].kind = "CONSENSUS"
            => sent'[i].transactionId \div IdStride # SelfId]_vars
\* the node has created its transaction, and the one packet delivered to it,
\* a transaction, was skipped: nothing stored, counted or sent
C39_Witness ==
    /\ transactionCounter = 1
    /\ totalMessagesReceived = 1
    /\ log = "none"
    /\ sent = << >>
    /\ pendingTransactions = EmptyMap
    /\ totalValidTransactions = 0 /\ totalFalsePositives = 0

\* C40: the digest stored in a transaction sendTransaction has built is the
\* digest of the vector the transaction carries, the adversarial transform
\* included: the digest comparison of verifySemanticIntegrity passes on it.
C40_DigestOfFinalVector ==
    (createdTx # NoTx)
    => createdTx.semanticDigest = computeSemanticDigest(createdTx.conceptVector)
\* an adversarial node built a transaction whose vector is no longer the
\* generated one, and its digest is that of the vector it carries
C40_Witness ==
    /\ createdTx # NoTx
    /\ SelfId \in adversarialNodes
    /\ createdTx.conceptVector.data # rngDraws.data
    /\ DigestMatches(createdTx)
    /\ createdTx.semanticDigest # computeSemanticDigest(generateConceptVector(rngDraws.data))

\* every vote cast has been delivered to every node
AllDelivered ==
    /\ voted = Voters
    /\ \A n \in NodeIds : \A v \in Voters : channel[n][v] = << >>

\* C35: when the votes on a transaction are broadcast to several nodes and
\* reach them in different orders, the nodes agree once every vote has been
\* delivered: no node has finalized the transaction (and never rejected it)
\* while another node has rejected it by consensus (and never finalized it).
C35_NodesAgree ==
    AllDelivered
    => \A a \in NodeIds : \A b \in NodeIds \ {a} :
          ~(/\ NetTx \in peers[a].confirmedTransactions \ peers[a].rejected
            /\ NetTx \in peers[b].rejected \ peers[b].confirmedTransactions)

====
